---- MODULE Spec2Model ----
(***************************************************************************)
(* A state-machine model of the task bot (src/bot.py): the pending-task    *)
(* aggregator, the task status transitions driven by replies and /oper,    *)
(* the escalation watchdog for unassigned high-priority tasks with its     *)
(* quiet-hours pause/resume, and the startup recovery.                     *)
(*                                                                         *)
(* Text is a sequence of characters.  A character is a one-element string; *)
(* a Cyrillic letter of the source is written as a token "cyr_x" (capital  *)
(* letters "cyr_X"), because the module is ASCII.  Time is an integer      *)
(* number of seconds since Monday 00:00:00 Moscow time of the first week.  *)
(***************************************************************************)
EXTENDS Integers, Sequences, FiniteSets, TLC

(***************************************************************************)
(* Text helpers: what str.strip, str.lower, str.startswith, the `in`       *)
(* substring test, str.split("\n", 1) and "\n".join compute.               *)
(***************************************************************************)
NL == "\n"

Whitespace == {" ", NL}

LowerChar(c) ==
    CASE c = "cyr_Z" -> "cyr_z"
      [] c = "cyr_V" -> "cyr_v"
      [] c = "cyr_G" -> "cyr_g"
      [] c = "cyr_O" -> "cyr_o"
      [] c = "H" -> "h"
      [] c = "G" -> "g"
      [] c = "T" -> "t"
      [] OTHER -> c

Lower(s) == [i \in 1..Len(s) |-> LowerChar(s[i])]

RECURSIVE LStrip(_)
LStrip(s) ==
    IF s # <<>> /\ Head(s) \in Whitespace THEN LStrip(Tail(s)) ELSE s

RECURSIVE RStrip(_)
RStrip(s) ==
    IF s # <<>> /\ s[Len(s)] \in Whitespace
    THEN RStrip(SubSeq(s, 1, Len(s) - 1))
    ELSE s

Strip(s) == RStrip(LStrip(s))

StartsWith(s, p) ==
    /\ Len(p) <= Len(s)
    /\ SubSeq(s, 1, Len(p)) = p

Contains(s, p) ==
    \E i \in 1..(Len(s) - Len(p) + 1) : SubSeq(s, i, i + Len(p) - 1) = p

HasNL(s) == \E i \in 1..Len(s) : s[i] = NL

FirstNL(s) == CHOOSE i \in 1..Len(s) : s[i] = NL /\ \A j \in 1..(i - 1) : s[j] # NL

RECURSIVE JoinNL(_)
JoinNL(parts) ==
    IF parts = <<>> THEN <<>>
    ELSE IF Len(parts) = 1 THEN parts[1]
    ELSE parts[1] \o <<NL>> \o JoinNL(Tail(parts))

(***************************************************************************)
(* extract_topic_and_desc and extract_priority.                            *)
(***************************************************************************)
TAG == <<"#", "cyr_Z">>

IsTagText(text) == StartsWith(text, TAG \o <<" ">>) \/ text = TAG

extract_topic_and_desc(text) ==
    IF ~IsTagText(text) THEN [ok |-> FALSE, topic |-> <<>>, desc |-> <<>>]
    ELSE IF text = TAG THEN [ok |-> TRUE, topic |-> <<>>, desc |-> <<>>]
    ELSE LET content == LStrip(SubSeq(text, 4, Len(text)))
         IN IF HasNL(content)
            THEN LET k == FirstNL(content)
                 IN [ok |-> TRUE,
                     topic |-> Strip(SubSeq(content, 1, k - 1)),
                     desc |-> Strip(SubSeq(content, k + 1, Len(content)))]
            ELSE [ok |-> TRUE, topic |-> Strip(content), desc |-> <<>>]

high_priority_triggers ==
    { <<"#", "cyr_v", " ">>, <<"#", "cyr_s", " ">>, <<"#", "v", " ">>,
      <<"#", "c", " ">>,
      <<"#", "cyr_v", "cyr_y", "cyr_s", "cyr_o", "cyr_k", "cyr_i", "cyr_j">>,
      <<"#", "h", "i", "g", "h">> }

low_priority_triggers ==
    { <<"#", "cyr_n", " ">>,
      <<"#", "cyr_n", "cyr_i", "cyr_z", "cyr_k", "cyr_i", "cyr_j">>,
      <<"#", "l", "o", "w">> }

PRIO_HIGH == "Vysokij"
PRIO_MEDIUM == "Srednij"
PRIO_LOW == "Nizkij"

extract_priority(text) ==
    LET text_lower == Lower(text)
    IN IF \E trigger \in high_priority_triggers : Contains(text_lower, trigger)
       THEN PRIO_HIGH
       ELSE IF \E trigger \in low_priority_triggers : Contains(text_lower, trigger)
       THEN PRIO_LOW
       ELSE PRIO_MEDIUM

(***************************************************************************)
(* Clock predicates.                                                       *)
(***************************************************************************)
MINUTE == 60
HOUR == 60 * MINUTE
DAY == 24 * HOUR

Weekday(t) == (t \div DAY) % 7
HourOf(t) == (t % DAY) \div HOUR
SecOfDay(t) == t % DAY

is_weekend(t) == Weekday(t) >= 5
is_weekday(t) == ~is_weekend(t)

is_quiet_hours(t) ==
    IF is_weekend(t)
    THEN HourOf(t) >= 21 \/ HourOf(t) < 10
    ELSE HourOf(t) >= 21 \/ HourOf(t) < 8

(***************************************************************************)
(* Configuration and users.                                                *)
(***************************************************************************)
DEBOUNCE_SECONDS == 20

DEFAULT_CONFIG == [delay |-> 5, interval |-> 5]

Users == {"ann", "bob"}

Username(u) ==
    IF u = "ann" THEN <<"a", "n", "n">> ELSE <<"b", "o", "b">>

HandleOf(u) == <<"@">> \o Username(u)

\* users_mapping: @ann is known to the user directory, @bob is not.
users_mapping == [h \in {<<"@", "a", "n", "n">>} |-> <<"A", "n", "n">>]

MappingGet(h) == IF h \in DOMAIN users_mapping THEN users_mapping[h] ELSE h

STATUS_UNASSIGNED == "Ne raspredeleno"
STATUS_IN_PROGRESS == "V rabote"
STATUS_OPERATIONAL == "Operacionnaya zadacha"
STATUS_DONE == "Vypolneno"

\* An empty timestamp cell.
NoTime == -1

STALE_CHECK_INTERVAL == 30
UNASSIGNED_REPORT_INTERVAL == 30
OVERDUE_HOURS_THRESHOLD == 24

\* the STALE_*_PRIORITY_MINUTES budgets
STALE_HIGH_PRIORITY_MINUTES == 60
STALE_MEDIUM_PRIORITY_MINUTES == 300
STALE_LOW_PRIORITY_MINUTES == 1440

\* MIN_LIMITS (0.1 h, 1 h, 4 h), in minutes
MIN_LIMITS == [high |-> 6, medium |-> 60, low |-> 240]

\* the limits the validation sets in place of a value under the minimum
\* (1.0 h, 5.0 h, 24.0 h), in minutes
RESET_LIMITS == [high |-> 60, medium |-> 300, low |-> 1440]

\* the validation of the three STALE_*_PRIORITY_LIMIT globals: a value under
\* the minimum of its priority is replaced, any other value is kept
validate_limits(configured) ==
    [p \in {"high", "medium", "low"} |->
        IF configured[p] < MIN_LIMITS[p] THEN RESET_LIMITS[p] ELSE configured[p]]

\* the limits of a process whose environment sets none of them
DEFAULT_LIMITS ==
    [high |-> STALE_HIGH_PRIORITY_MINUTES,
     medium |-> STALE_MEDIUM_PRIORITY_MINUTES,
     low |-> STALE_LOW_PRIORITY_MINUTES]

\* the globals once the module is loaded with the configured minutes
Validated(configured) ==
    [configured |-> configured, limit |-> validate_limits(configured),
     validated |-> TRUE]

CACHE_TTL == 60

\* _sheet_cache before the first read: data is None
NoCache == [filled |-> FALSE, data |-> <<>>, timestamp |-> 0]

(***************************************************************************)
(* Bounds of the explored behaviours.                                      *)
(***************************************************************************)
MaxTasks == 2
MaxParts == 3
MaxMessages == 3
AggStep == 10
AggHorizon == 30
LifeTasks == 2
LifeParts == 1
LifeMessages == 1
EveningWindow == 8
MorningWindow == 10
PreElapsed == 7
StatusMessages == 4
StatusHorizon == 2
RecoverRows == 2
RecoverHorizon == 10
DeskTasks == 2
DeskMessages == 2
DeskHorizon == 2
MaxRestarts == 1
StaleRows == 2
StaleMessages == 2
StaleScans == 2
StaleStep == 30
StaleLead == 90
DigestMessages == 1
AbandonMessages == 3
AbandonHorizon == 1
PrecedenceMessages == 2
PrecedenceHorizon == 1
RetryCalls == 4

(***************************************************************************)
(* State.                                                                  *)
(***************************************************************************)
VARIABLES
    now,              \* the clock (seconds)
    end_time,         \* the instant at which the exploration stops
    retry,            \* one call of a store operation wrapped by
                      \* retry_sheet_operation: the outcomes of the calls of
                      \* the wrapped function and where the wrapper stands
    pc,               \* "boot" before main() has run, "run" afterwards
    cfg,              \* URGENT_UNASSIGNED_DELAY / _INTERVAL (minutes) and
                      \* the limits on the traffic of the run
    sheet,            \* the rows of the task sheet, in order
    task_counter,
    next_message_id,  \* id of the next inbound chat message that is recorded
    pending_tasks,    \* key -> pending entry
    task_timers,      \* pending finalize_task_job jobs
    urgent_watchlist, \* task id -> escalation entry
    paused_timers,    \* task id -> paused escalation entry
    urgent_jobs,      \* pending check_urgent_unassigned jobs
    in_flight,        \* check_urgent_unassigned runs suspended at send_message
    cron_done,        \* cron jobs that have run at the current instant
    published,        \* task ids announced in the channel
    deleted_msgs,     \* inbound message ids deleted from the chat
    alerts,           \* task id -> [count, last_n, last_at] of the alerts sent
    arrivals,         \* the texts received, as sent: by key while the
                      \* aggregation is open, by task id once it is finalized
    sheet_cache,      \* _sheet_cache: the snapshot of the sheet and its time
    stale_next,       \* next run time of the stale_check interval job
    stale_reports,    \* the reports of the stale scans, in order
    restarts,         \* how many times the process has been started again
    stale_limits,     \* the STALE_*_PRIORITY_LIMIT globals (minutes), as
                      \* configured and as in force, and whether the
                      \* validation of the module has run
    report_next,      \* next run time of the non_urgent_unassigned_report
                      \* interval job
    chat_posts        \* what the summary jobs have sent to the discussion
                      \* chat, in order

vars == <<now, end_time, pc, cfg, sheet, task_counter, next_message_id,
          pending_tasks, task_timers, urgent_watchlist, paused_timers,
          urgent_jobs, in_flight, cron_done, published, deleted_msgs, alerts,
          arrivals, sheet_cache, stale_next, stale_reports, restarts,
          stale_limits, report_next, chat_posts, retry>>

\* the state of the summary jobs
digest_vars == <<report_next, chat_posts>>

\* the state of the snapshot cache and of the stale scan
scan_vars == <<sheet_cache, stale_next, stale_reports>>

URGENT_UNASSIGNED_DELAY == cfg.delay
URGENT_UNASSIGNED_INTERVAL == cfg.interval

\* dict helpers
Put(f, k, v) == [x \in DOMAIN f \cup {k} |-> IF x = k THEN v ELSE f[x]]
Drop(f, k) == [x \in DOMAIN f \ {k} |-> f[x]]
EmptyMap == [x \in {} |-> 0]

\* row of a task id: the first row whose ID cell matches, 0 if none
FindRow(sh, task_id) ==
    IF \E i \in 1..Len(sh) : sh[i].id = task_id
    THEN CHOOSE i \in 1..Len(sh) :
            sh[i].id = task_id /\ \A j \in 1..(i - 1) : sh[j].id # task_id
    ELSE 0

\* the task ids of the rows of the sheet
TaskIds == {sheet[i].id : i \in 1..Len(sheet)}

\* one pending job is due and nothing else has to run first
NothingDue(t) ==
    /\ \A j \in task_timers : j.due >= t
    /\ \A j \in urgent_jobs : j.due >= t

(***************************************************************************)
(* retry_sheet_operation: the wrapper around safe_get_all_records,         *)
(* safe_append_row and safe_update_cell.  A call is                        *)
(* [func, state, attempt, calls, last_exception, slept, out]: func[n] is   *)
(* the outcome of the n-th call of the wrapped function, state is "idle",  *)
(* "loop", "returned" or "raised", calls counts the calls made,            *)
(* last_exception and out are the number of the call whose error is kept   *)
(* and whose result or error leaves the wrapper.                           *)
(***************************************************************************)
max_attempts == 3

Outcomes == {"ok", "transient", "other"}

Call(func) ==
    [func |-> func, state |-> "idle", attempt |-> 0, calls |-> 0,
     last_exception |-> 0, slept |-> 0, out |-> 0]

NotCalled == Call(<<>>)

Min(a, b) == IF a <= b THEN a ELSE b

\* wait_time = min(2 ** (attempt - 1), 10)
wait_time(attempt) == Min(2 ^ (attempt - 1), 10)

\* a loop with one attempt more, to compare with attempt_range
attempt_range_one_more(max) == 1..(max + 1)

\* for attempt in range(1, max_attempts + 1)
attempt_range(max) == 1..max

retry_frame ==
    UNCHANGED <<now, end_time, pc, cfg, sheet, task_counter, next_message_id,
                pending_tasks, task_timers, urgent_watchlist, paused_timers,
                urgent_jobs, in_flight, cron_done, published, deleted_msgs,
                alerts, arrivals, sheet_cache, stale_next, stale_reports,
                restarts, stale_limits, report_next, chat_posts>>

\* the wrapper is entered: last_exception = None, first attempt
wrapper ==
    /\ retry.state = "idle"
    /\ retry.func # <<>>
    /\ retry' = [retry EXCEPT !.state = "loop", !.attempt = 1]
    /\ retry_frame

\* one turn of the loop: `return await func(...)`, or the except branch for
\* the three transient types, or an error of another type that leaves the
\* wrapper
wrapper_attempt ==
    /\ retry.state = "loop"
    /\ retry.attempt \in attempt_range(max_attempts)
    /\ LET n == retry.calls + 1
           outcome == retry.func[n]
       IN retry' =
             CASE outcome = "ok" ->
                     [retry EXCEPT !.calls = n, !.state = "returned", !.out = n]
               [] outcome = "transient" ->
                     [retry EXCEPT !.calls = n,
                                   !.last_exception = n,
                                   !.slept = @ + wait_time(retry.attempt),
                                   !.attempt = @ + 1]
               [] OTHER ->
                     [retry EXCEPT !.calls = n, !.state = "raised", !.out = n]
    /\ retry_frame

\* the loop is over: `raise last_exception`
wrapper_exhausted ==
    /\ retry.state = "loop"
    /\ retry.attempt \notin attempt_range(max_attempts)
    /\ retry' = [retry EXCEPT !.state = "raised", !.out = retry.last_exception]
    /\ retry_frame

(***************************************************************************)
(* initialize_task_counter / generate_task_id                              *)
(***************************************************************************)
RECURSIVE MaxOf(_)
MaxOf(S) ==
    IF S = {} THEN 0
    ELSE LET x == CHOOSE y \in S : \A z \in S : z <= y IN x

initialize_task_counter(sh) == MaxOf({sh[i].id : i \in 1..Len(sh)})

(***************************************************************************)
(* handle_new_task: an inbound chat message of user u with the given text. *)
(***************************************************************************)
\* a list that takes the new text in front, to compare with add_part
add_part_in_front(desc_parts, text) == <<text>> \o desc_parts

\* pending_tasks[key]["desc_parts"].append(text)
add_part(desc_parts, text) == Append(desc_parts, text)

\* an append that starts the debounce window again, to compare with
\* timers_after_append
timers_reset_by_append(timers, key, t) ==
    {j \in timers : j.key # key} \cup {[key |-> key, due |-> t + DEBOUNCE_SECONDS]}

\* the append branch returns without a call to the job queue
timers_after_append(timers, key, t) == timers

\* one key for the whole chat, to compare with pending_key
chat_key(u) == "ann"

\* key = (user.id, chat_id, None): the chat is fixed, the key is the author
pending_key(u) == u

handle_new_task(u, raw) ==
    LET text == Strip(raw)
        key == pending_key(u)
    IN /\ pc = "run"
       /\ next_message_id <= cfg.messages
       /\ text # <<>>
       /\ IF key \in DOMAIN pending_tasks
          THEN /\ Len(pending_tasks[key].desc_parts) < cfg.parts
               /\ pending_tasks' =
                     [pending_tasks EXCEPT
                        ![key].desc_parts = add_part(@, text),
                        ![key].msg_ids = Append(@, next_message_id)]
               /\ arrivals' = [arrivals EXCEPT !.open[key] = Append(@, raw)]
               /\ next_message_id' = next_message_id + 1
               /\ task_timers' = timers_after_append(task_timers, key, now)
          ELSE /\ IsTagText(text)
               /\ task_counter + Cardinality(DOMAIN pending_tasks) < cfg.tasks
               /\ LET r == extract_topic_and_desc(text)
                  IN pending_tasks' =
                        Put(pending_tasks, key,
                            [user |-> u,
                             topic |-> r.topic,
                             desc_parts |-> IF r.desc # <<>> THEN <<r.desc>> ELSE <<>>,
                             msg_ids |-> <<next_message_id>>,
                             start_time |-> now])
               /\ arrivals' = [arrivals EXCEPT !.open = Put(@, key, <<raw>>)]
               /\ next_message_id' = next_message_id + 1
               /\ task_timers' = task_timers \cup
                                   {[key |-> key, due |-> now + DEBOUNCE_SECONDS]}
       /\ UNCHANGED <<scan_vars, restarts, stale_limits, digest_vars>>
       /\ UNCHANGED <<now, end_time, retry, pc, cfg, sheet, task_counter,
                      urgent_watchlist, paused_timers, urgent_jobs, in_flight,
                      cron_done, published, deleted_msgs, alerts>>

(***************************************************************************)
(* finalize_task_job: the debounce timer of a key fires.  fail names the   *)
(* external call that raises: "none", "publish" or "append".               *)
(***************************************************************************)
NewRow(task_id, t, topic, description, author, priority) ==
    [id |-> task_id, created |-> t, topic |-> topic,
     description |-> description, author |-> author, executor |-> <<>>,
     status |-> STATUS_UNASSIGNED, assigned |-> NoTime, completed |-> NoTime,
     msg_id |-> task_id, priority |-> priority, closed_by |-> <<>>]

\* a handler that goes on to the sheet after a failed publish, to compare
\* with append_attempted
append_always(fail) == TRUE

\* the `return` of the except branch around the publish: the append is
\* reached only when the announcement was sent
append_attempted(fail) == fail # "publish"

finalize_task_job(job, fail) ==
    /\ pc = "run"
    /\ job \in task_timers
    /\ job.due <= now
    /\ task_timers' = task_timers \ {job}
    /\ IF job.key \notin DOMAIN pending_tasks
       THEN UNCHANGED <<pending_tasks, task_counter, sheet, published,
                        deleted_msgs, urgent_watchlist, urgent_jobs, arrivals>>
       ELSE LET data == pending_tasks[job.key]
                topic == data.topic
                description == Strip(JoinNL(data.desc_parts))
                task_id == task_counter + 1
                author == MappingGet(HandleOf(data.user))
                full_text == topic \o <<NL>> \o description
                priority == extract_priority(full_text)
            IN /\ pending_tasks' = Drop(pending_tasks, job.key)
               /\ arrivals' = [open |-> Drop(arrivals.open, job.key),
                               filed |-> Put(arrivals.filed, task_id,
                                             arrivals.open[job.key])]
               /\ task_counter' = task_id
               /\ deleted_msgs' = deleted_msgs \cup
                     {data.msg_ids[i] : i \in 1..Len(data.msg_ids)}
               /\ published' = IF fail = "publish" THEN published
                                ELSE published \cup {task_id}
               /\ IF ~append_attempted(fail) \/ fail = "append"
                  THEN UNCHANGED <<sheet, urgent_watchlist, urgent_jobs>>
                  ELSE /\ sheet' = Append(sheet,
                             NewRow(task_id, now, topic, description,
                                    author, priority))
                       /\ IF priority = PRIO_HIGH
                          THEN /\ urgent_watchlist' =
                                    Put(urgent_watchlist, task_id,
                                        [created_at |-> now,
                                         topic |-> topic,
                                         notified_count |-> 0])
                               /\ urgent_jobs' = urgent_jobs \cup
                                    {[task_id |-> task_id,
                                      due |-> now + URGENT_UNASSIGNED_DELAY * MINUTE,
                                      topic |-> topic,
                                      created_at |-> now]}
                          ELSE UNCHANGED <<urgent_watchlist, urgent_jobs>>
    /\ UNCHANGED <<scan_vars, restarts, stale_limits, digest_vars>>
    /\ UNCHANGED <<now, end_time, retry, pc, cfg, next_message_id, paused_timers,
                   in_flight, cron_done, alerts>>

(***************************************************************************)
(* handle_task_reply: user u replies with the given text to the            *)
(* announcement of task_id.                                                *)
(***************************************************************************)
NonWord == {" ", NL, "#", "@", ".", ",", "-"}

WordChar(c) == c \notin NonWord

\* re.search(r'@[\w\d_]+', text): <<>> when there is no match
username_match(text) ==
    LET starts == {i \in 1..(Len(text) - 1) :
                      text[i] = "@" /\ WordChar(text[i + 1])}
    IN IF starts = {} THEN <<>>
       ELSE LET i == CHOOSE k \in starts : \A m \in starts : k <= m
                j == CHOOSE k \in (i + 1)..Len(text) :
                        /\ \A m \in (i + 1)..k : WordChar(text[m])
                        /\ (k = Len(text) \/ ~WordChar(text[k + 1]))
            IN SubSeq(text, i, j)

completion_triggers ==
    { <<"#", "cyr_v", "cyr_y", "cyr_p", "cyr_o", "cyr_l", "cyr_n", "cyr_e",
        "cyr_n", "cyr_o">>,
      <<"cyr_g", "cyr_o", "cyr_t", "cyr_o", "cyr_v", "cyr_o">>,
      <<"cyr_r", "cyr_e", "cyr_sh", "cyr_e", "cyr_n", "cyr_o">> }

operational_triggers ==
    { <<"#", "cyr_o", "cyr_p", "cyr_e", "cyr_r">>,
      <<"#", "cyr_o", "cyr_p", "cyr_e", "cyr_r", "cyr_a", "cyr_ts", "cyr_i",
        "cyr_o", "cyr_n", "cyr_n", "cyr_a", "cyr_ya">>,
      <<"#", "cyr_o", "cyr_p", "cyr_e", "cyr_r", ".", " ", "cyr_z", "cyr_a",
        "cyr_d", "cyr_a", "cyr_ch", "cyr_a">> }

\* a chain that looks for the completion keyword first, to compare with
\* ReplyAction
ReplyActionCompleteFirst(text) ==
    IF \E trigger \in completion_triggers : Contains(Lower(text), trigger)
    THEN "complete"
    ELSE IF username_match(text) # <<>> THEN "assign"
    ELSE IF \E trigger \in operational_triggers : Contains(Lower(text), trigger)
    THEN "operational"
    ELSE "none"

ReplyAction(text) ==
    IF username_match(text) # <<>> THEN "assign"
    ELSE IF \E trigger \in completion_triggers : Contains(Lower(text), trigger)
    THEN "complete"
    ELSE IF \E trigger \in operational_triggers : Contains(Lower(text), trigger)
    THEN "operational"
    ELSE "none"

\* the jobs left after job.schedule_removal() of every job named
\* urgent_watch_<task_id>
JobsWithout(jobs, task_id) == {j \in jobs : j.task_id # task_id}

\* `if task_id in urgent_watchlist:` cancel its jobs and delete the entry
CancelEscalation(task_id) ==
    IF task_id \in DOMAIN urgent_watchlist
    THEN /\ urgent_jobs' = JobsWithout(urgent_jobs, task_id)
         /\ urgent_watchlist' = Drop(urgent_watchlist, task_id)
    ELSE UNCHANGED <<urgent_jobs, urgent_watchlist>>

\* an Assign that also raises the priority, to compare with AssignRow
AssignRowRaisingPriority(row, executor_name, t) ==
    [row EXCEPT !.executor = executor_name,
                !.status = STATUS_IN_PROGRESS,
                !.assigned = t,
                !.priority = PRIO_HIGH]

AssignRow(row, executor_name, t) ==
    [row EXCEPT !.executor = executor_name,
                !.status = STATUS_IN_PROGRESS,
                !.assigned = t]

\* a Complete that also clears the executor, to compare with CompleteRow
CompleteRowClearingExecutor(row, closer_display_name, t) ==
    [row EXCEPT !.status = STATUS_DONE,
                !.completed = t,
                !.closed_by = closer_display_name,
                !.executor = <<>>]

CompleteRow(row, closer_display_name, t) ==
    [row EXCEPT !.status = STATUS_DONE,
                !.completed = t,
                !.closed_by = closer_display_name]

\* a MarkOperational that stamps the assignment time again, to compare with
\* OperationalRow
OperationalRowRestamping(row, display_name, t) ==
    [row EXCEPT !.status = STATUS_OPERATIONAL,
                !.executor = IF Strip(row.executor) = <<>> THEN display_name ELSE @,
                !.assigned = t]

OperationalRow(row, display_name, t) ==
    [row EXCEPT !.status = STATUS_OPERATIONAL,
                !.executor = IF Strip(row.executor) = <<>> THEN display_name ELSE @,
                !.assigned = IF row.assigned = NoTime THEN t ELSE @]

\* a handler that lets every status through, to compare with reply_refused
reply_never_refused(current_status) == FALSE

\* `if current_status == "Выполнено": return`
reply_refused(current_status) == current_status = STATUS_DONE

\* fail names the call that raises: "none", or "notify" for the
\* send_message to the discussion chat that follows the writes of a branch;
\* the except branch then leaves `processed` False
task_reply(u, raw, task_id, fail) ==
    LET text == Strip(raw)
        row_idx == FindRow(sheet, task_id)
        action == IF reply_refused(sheet[row_idx].status)
                  THEN "none" ELSE ReplyAction(text)
        processed == action # "none" /\ fail # "notify"
    IN /\ pc = "run"
       /\ next_message_id <= cfg.messages
       /\ next_message_id' = next_message_id + 1
       /\ text # <<>>
       /\ row_idx # 0
       /\ fail = "none" \/ action # "none"
       /\ deleted_msgs' = IF processed
                          THEN deleted_msgs \cup {next_message_id}
                          ELSE deleted_msgs
       /\ CASE action = "assign" ->
                 /\ sheet' = [sheet EXCEPT ![row_idx] =
                        AssignRow(@, MappingGet(username_match(text)), now)]
                 /\ CancelEscalation(task_id)
            [] action = "complete" ->
                 /\ sheet' = [sheet EXCEPT ![row_idx] =
                        CompleteRow(@, MappingGet(HandleOf(u)), now)]
                 /\ CancelEscalation(task_id)
            [] action = "operational" ->
                 /\ sheet' = [sheet EXCEPT ![row_idx] =
                        OperationalRow(@, MappingGet(HandleOf(u)), now)]
                 /\ UNCHANGED <<urgent_jobs, urgent_watchlist>>
            [] OTHER ->
                 UNCHANGED <<sheet, urgent_jobs, urgent_watchlist>>
       /\ UNCHANGED <<scan_vars, restarts, stale_limits, digest_vars>>
       /\ UNCHANGED <<now, end_time, retry, pc, cfg, arrivals, task_counter, pending_tasks,
                      task_timers, paused_timers, in_flight, cron_done,
                      published, alerts>>

handle_task_reply(u, raw, task_id) == task_reply(u, raw, task_id, "none")

\* the row when the second SHEET.update_cell of a branch raises: the first
\* cell of the branch is written, the others are not
FirstCellWritten(row, action, executor_name) ==
    CASE action = "assign" -> [row EXCEPT !.executor = executor_name]
      [] action = "complete" -> [row EXCEPT !.status = STATUS_DONE]
      [] OTHER -> [row EXCEPT !.status = STATUS_OPERATIONAL]

\* the reply when the second SHEET.update_cell of its branch raises: the
\* except branch logs, the registry is not reached and `processed` stays
\* False.  MarkOperational has a second write only when the executor or the
\* assignment time is empty.
task_reply_write_fails(u, raw, task_id) ==
    LET text == Strip(raw)
        row_idx == FindRow(sheet, task_id)
        action == IF reply_refused(sheet[row_idx].status)
                  THEN "none" ELSE ReplyAction(text)
    IN /\ pc = "run"
       /\ next_message_id <= cfg.messages
       /\ next_message_id' = next_message_id + 1
       /\ text # <<>>
       /\ row_idx # 0
       /\ action # "none"
       /\ action = "operational"
             => (Strip(sheet[row_idx].executor) = <<>>
                    \/ sheet[row_idx].assigned = NoTime)
       /\ sheet' = [sheet EXCEPT ![row_idx] =
              FirstCellWritten(@, action, MappingGet(username_match(text)))]
       /\ UNCHANGED <<urgent_jobs, urgent_watchlist, deleted_msgs>>
       /\ UNCHANGED <<scan_vars, restarts, stale_limits, digest_vars>>
       /\ UNCHANGED <<now, end_time, retry, pc, cfg, arrivals, task_counter, pending_tasks,
                      task_timers, paused_timers, in_flight, cron_done,
                      published, alerts>>

(***************************************************************************)
(* cmd_operational: /oper <task id>                                        *)
(***************************************************************************)
OperCommandRow(row, t) ==
    [row EXCEPT !.status = STATUS_OPERATIONAL,
                !.assigned = IF row.status = STATUS_UNASSIGNED THEN t ELSE @]

\* a command that lets every status through, to compare with oper_refused
oper_never_refused(current_status) == FALSE

\* `if "выполнено" in current_status.lower():` reply and return
oper_refused(current_status) == current_status = STATUS_DONE

cmd_operational(u, task_id) ==
    LET row_idx == FindRow(sheet, task_id)
    IN /\ pc = "run"
       /\ next_message_id <= cfg.messages
       /\ next_message_id' = next_message_id + 1
       /\ row_idx # 0
       /\ sheet' = IF oper_refused(sheet[row_idx].status)
                   THEN sheet
                   ELSE [sheet EXCEPT ![row_idx] = OperCommandRow(@, now)]
       /\ UNCHANGED <<scan_vars, restarts, stale_limits, digest_vars>>
       /\ UNCHANGED <<now, end_time, retry, pc, cfg, arrivals, task_counter,
                      pending_tasks, task_timers, urgent_watchlist,
                      paused_timers, urgent_jobs, in_flight, cron_done,
                      published, deleted_msgs, alerts>>

(***************************************************************************)
(* check_urgent_unassigned: an escalation timer fires.  The handler runs   *)
(* without suspension up to `await send_message` (the sheet calls are      *)
(* synchronous) and continues when the send returns.                       *)
(***************************************************************************)
Eligible(row) ==
    /\ row.priority = PRIO_HIGH
    /\ row.status = STATUS_UNASSIGNED
    /\ Strip(row.executor) = <<>>

RecordAlert(task_id, n) ==
    alerts' = Put(alerts, task_id,
                  [count |-> (IF task_id \in DOMAIN alerts
                              THEN alerts[task_id].count ELSE 0) + 1,
                   last_n |-> n,
                   last_at |-> now])

check_urgent_unassigned_begin(job) ==
    /\ pc = "run"
    /\ job \in urgent_jobs
    /\ job.due <= now
    /\ urgent_jobs' = urgent_jobs \ {job}
    /\ IF \/ is_quiet_hours(now)
          \/ is_weekend(now)
          \/ job.task_id \notin DOMAIN urgent_watchlist
       THEN UNCHANGED <<urgent_watchlist, in_flight, alerts>>
       ELSE LET row_idx == FindRow(sheet, job.task_id)
            IN IF row_idx = 0 \/ ~Eligible(sheet[row_idx])
               THEN /\ urgent_watchlist' = Drop(urgent_watchlist, job.task_id)
                    /\ UNCHANGED <<in_flight, alerts>>
               ELSE /\ urgent_watchlist' =
                          [urgent_watchlist EXCEPT
                             ![job.task_id].notified_count = @ + 1]
                    /\ RecordAlert(job.task_id,
                          urgent_watchlist[job.task_id].notified_count + 1)
                    /\ in_flight' = in_flight \cup
                          {[task_id |-> job.task_id, topic |-> job.topic,
                            created_at |-> job.created_at]}
    /\ UNCHANGED <<scan_vars, restarts, stale_limits, digest_vars>>
    /\ UNCHANGED <<now, end_time, retry, pc, cfg, arrivals, sheet, task_counter,
                   next_message_id, pending_tasks, task_timers, paused_timers,
                   cron_done, published, deleted_msgs>>

\* the firing when SHEET.col_values or SHEET.cell raises: the except branch
\* pops the entry
check_urgent_unassigned_read_fails(job) ==
    /\ pc = "run"
    /\ job \in urgent_jobs
    /\ job.due <= now
    /\ ~is_quiet_hours(now)
    /\ ~is_weekend(now)
    /\ job.task_id \in DOMAIN urgent_watchlist
    /\ urgent_jobs' = urgent_jobs \ {job}
    /\ urgent_watchlist' = Drop(urgent_watchlist, job.task_id)
    /\ UNCHANGED <<scan_vars, restarts, stale_limits, digest_vars>>
    /\ UNCHANGED <<now, end_time, retry, pc, cfg, arrivals, sheet, task_counter,
                   next_message_id, pending_tasks, task_timers, paused_timers,
                   in_flight, cron_done, published, deleted_msgs, alerts>>

\* a run_once that needs no entry, to compare with RescheduleJobs
RescheduleAnyway(f) ==
    urgent_jobs \cup
       {[task_id |-> f.task_id,
         due |-> now + URGENT_UNASSIGNED_INTERVAL * MINUTE,
         topic |-> f.topic,
         created_at |-> f.created_at]}

\* the run_once after the send: its name argument reads
\* urgent_watchlist[task_id], which raises KeyError when the entry is gone
RescheduleJobs(f) ==
    IF f.task_id \in DOMAIN urgent_watchlist
    THEN urgent_jobs \cup
            {[task_id |-> f.task_id,
              due |-> now + URGENT_UNASSIGNED_INTERVAL * MINUTE,
              topic |-> f.topic,
              created_at |-> f.created_at]}
    ELSE urgent_jobs

check_urgent_unassigned_end(f, fail) ==
    /\ pc = "run"
    /\ f \in in_flight
    /\ in_flight' = in_flight \ {f}
    /\ IF fail = "send"
       THEN /\ urgent_watchlist' = Drop(urgent_watchlist, f.task_id)
            /\ UNCHANGED urgent_jobs
       ELSE /\ urgent_jobs' = RescheduleJobs(f)
            /\ UNCHANGED urgent_watchlist
    /\ UNCHANGED <<scan_vars, restarts, stale_limits, digest_vars>>
    /\ UNCHANGED <<now, end_time, retry, pc, cfg, arrivals, sheet, task_counter,
                   next_message_id, pending_tasks, task_timers, paused_timers,
                   cron_done, published, deleted_msgs, alerts>>

(***************************************************************************)
(* pause_all_timers (cron 21:00) and resume_all_timers (cron 08:01).       *)
(***************************************************************************)
PAUSE_AT == 21 * HOUR
RESUME_AT == 8 * HOUR + MINUTE

ElapsedMinutes(t, created_at) == (t - created_at) \div MINUTE

\* a pause that starts the count of every entry again, to compare with
\* PausedCopy
PausedCopyFromZero(t) ==
    [task_id \in DOMAIN urgent_watchlist |->
        [created_at |-> urgent_watchlist[task_id].created_at,
         topic |-> urgent_watchlist[task_id].topic,
         notified_count |-> 0,
         elapsed_minutes |->
            ElapsedMinutes(t, urgent_watchlist[task_id].created_at)]]

PausedCopy(t) ==
    [task_id \in DOMAIN urgent_watchlist |->
        [created_at |-> urgent_watchlist[task_id].created_at,
         topic |-> urgent_watchlist[task_id].topic,
         notified_count |-> urgent_watchlist[task_id].notified_count,
         elapsed_minutes |->
            ElapsedMinutes(t, urgent_watchlist[task_id].created_at)]]

pause_all_timers ==
    /\ pc = "run"
    /\ SecOfDay(now) = PAUSE_AT
    /\ "pause_timers" \notin cron_done
    /\ cron_done' = cron_done \cup {"pause_timers"}
    /\ IF DOMAIN urgent_watchlist = {}
       THEN UNCHANGED <<urgent_watchlist, paused_timers, urgent_jobs>>
       ELSE /\ paused_timers' = PausedCopy(now)
            /\ urgent_jobs' = {j \in urgent_jobs :
                                  j.task_id \notin DOMAIN urgent_watchlist}
            /\ urgent_watchlist' = EmptyMap
    /\ UNCHANGED <<scan_vars, restarts, stale_limits, digest_vars>>
    /\ UNCHANGED <<now, end_time, retry, pc, cfg, arrivals, sheet, task_counter,
                   next_message_id, pending_tasks, task_timers, in_flight,
                   published, deleted_msgs, alerts>>

remaining_minutes(elapsed_minutes) ==
    LET next_notify_at == (elapsed_minutes \div URGENT_UNASSIGNED_INTERVAL + 1)
                             * URGENT_UNASSIGNED_INTERVAL
        remaining == next_notify_at - elapsed_minutes
    IN IF remaining <= 0 THEN URGENT_UNASSIGNED_INTERVAL ELSE remaining

ResumedWatchlist ==
    [task_id \in DOMAIN paused_timers |->
        [created_at |-> paused_timers[task_id].created_at,
         topic |-> paused_timers[task_id].topic,
         notified_count |-> paused_timers[task_id].notified_count]]

resume_all_timers ==
    /\ pc = "run"
    /\ SecOfDay(now) = RESUME_AT
    /\ "resume_timers" \notin cron_done
    /\ cron_done' = cron_done \cup {"resume_timers"}
    /\ IF DOMAIN paused_timers = {}
       THEN UNCHANGED <<urgent_watchlist, paused_timers, urgent_jobs>>
       ELSE /\ urgent_watchlist' = ResumedWatchlist
            /\ urgent_jobs' = urgent_jobs \cup
                  {[task_id |-> task_id,
                    due |-> now + remaining_minutes(
                               paused_timers[task_id].elapsed_minutes) * MINUTE,
                    topic |-> paused_timers[task_id].topic,
                    created_at |-> paused_timers[task_id].created_at]
                     : task_id \in DOMAIN paused_timers}
            /\ paused_timers' = EmptyMap
    /\ UNCHANGED <<scan_vars, restarts, stale_limits, digest_vars>>
    /\ UNCHANGED <<now, end_time, retry, pc, cfg, arrivals, sheet, task_counter,
                   next_message_id, pending_tasks, task_timers, in_flight,
                   published, deleted_msgs, alerts>>

CronsDue(t) ==
    (IF SecOfDay(t) = PAUSE_AT THEN {"pause_timers"} ELSE {})
    \cup (IF SecOfDay(t) = RESUME_AT THEN {"resume_timers"} ELSE {})

NextCron(t) ==
    LET midnight == t - SecOfDay(t)
        cands == {midnight + RESUME_AT, midnight + PAUSE_AT,
                  midnight + DAY + RESUME_AT}
    IN CHOOSE c \in cands : c > t /\ \A d \in cands : d > t => c <= d

(***************************************************************************)
(* main(): initialize_task_counter, then recover_urgent_tasks_on_startup   *)
(* (post_init), which walks the rows in order.                             *)
(***************************************************************************)
Recoverable(row) ==
    /\ row.status = STATUS_UNASSIGNED
    /\ row.priority = PRIO_HIGH
    /\ row.created # NoTime

\* whether the loop sends the catch-up alert for this row
CatchUp(row, t) ==
    /\ ElapsedMinutes(t, row.created) >= URGENT_UNASSIGNED_DELAY
    /\ is_weekday(t)

catch_up_number(elapsed_minutes) ==
    (elapsed_minutes - URGENT_UNASSIGNED_DELAY) \div URGENT_UNASSIGNED_INTERVAL + 1

\* a recovery that always waits a full interval, to compare with
\* next_notify_in
a_full_interval(elapsed_minutes) == URGENT_UNASSIGNED_INTERVAL

next_notify_in(elapsed_minutes) ==
    IF elapsed_minutes < URGENT_UNASSIGNED_DELAY
    THEN URGENT_UNASSIGNED_DELAY - elapsed_minutes
    ELSE URGENT_UNASSIGNED_INTERVAL
            - ((elapsed_minutes - URGENT_UNASSIGNED_DELAY)
                  % URGENT_UNASSIGNED_INTERVAL)

\* notified_immediately when the loop has processed rows 1..i
notified_immediately(sh, i, t) ==
    Cardinality({j \in 1..i : Recoverable(sh[j]) /\ CatchUp(sh[j], t)})

\* the rows the loop registers, and the last row of each task id
RecoveredRows(sh, t) ==
    {i \in 1..Len(sh) : Recoverable(sh[i]) /\ is_weekday(t)}

LastRowOf(sh, t, task_id) ==
    CHOOSE i \in RecoveredRows(sh, t) :
        /\ sh[i].id = task_id
        /\ \A j \in RecoveredRows(sh, t) : sh[j].id = task_id => j <= i

RecoveredWatchlist(sh, t) ==
    [task_id \in {sh[i].id : i \in RecoveredRows(sh, t)} |->
        LET i == LastRowOf(sh, t, task_id)
        IN [created_at |-> sh[i].created,
            topic |-> sh[i].topic,
            notified_count |-> notified_immediately(sh, i, t)]]

RecoveredJobs(sh, t) ==
    {[task_id |-> sh[i].id,
      due |-> t + next_notify_in(ElapsedMinutes(t, sh[i].created)) * MINUTE,
      topic |-> sh[i].topic,
      created_at |-> sh[i].created] : i \in RecoveredRows(sh, t)}

RecoveredAlerts(sh, t) ==
    LET rows == {i \in 1..Len(sh) : Recoverable(sh[i]) /\ CatchUp(sh[i], t)}
    IN [task_id \in {sh[i].id : i \in rows} |->
          [count |-> Cardinality({i \in rows : sh[i].id = task_id}),
           last_n |-> catch_up_number(ElapsedMinutes(t,
                         sh[CHOOSE i \in rows :
                               /\ sh[i].id = task_id
                               /\ \A j \in rows : sh[j].id = task_id => j <= i
                           ].created)),
           last_at |-> t]]

\* the module-level validation of the limits, run once when the module is
\* loaded, before main()
validate_stale_limits ==
    /\ pc = "boot"
    /\ ~stale_limits.validated
    /\ stale_limits' = Validated(stale_limits.configured)
    /\ UNCHANGED <<scan_vars, restarts, digest_vars>>
    /\ UNCHANGED <<now, end_time, retry, pc, cfg, arrivals, sheet, task_counter,
                   next_message_id, pending_tasks, task_timers,
                   urgent_watchlist, paused_timers, urgent_jobs, in_flight,
                   cron_done, published, deleted_msgs, alerts>>

Startup ==
    /\ pc = "boot"
    /\ pc' = "run"
    /\ task_counter' = initialize_task_counter(sheet)
    /\ urgent_watchlist' = RecoveredWatchlist(sheet, now)
    /\ urgent_jobs' = RecoveredJobs(sheet, now)
    /\ alerts' = RecoveredAlerts(sheet, now)
    /\ stale_next' = now + STALE_CHECK_INTERVAL * MINUTE
    /\ stale_limits.validated
    /\ report_next' = now + UNASSIGNED_REPORT_INTERVAL * MINUTE
    /\ UNCHANGED <<sheet_cache, stale_reports, restarts, stale_limits,
                   chat_posts>>
    /\ UNCHANGED <<now, end_time, retry, cfg, arrivals, sheet, next_message_id,
                   pending_tasks,
                   task_timers, paused_timers, in_flight, cron_done, published,
                   deleted_msgs>>

(***************************************************************************)
(* The process is stopped and started again at the current instant: the    *)
(* module globals are lost, main() runs again.  fail names the call that   *)
(* raises: "none", or "ids" for SHEET.col_values in                        *)
(* initialize_task_counter.                                                *)
(***************************************************************************)
MergedAlerts(old, new) ==
    [task_id \in DOMAIN old \cup DOMAIN new |->
        IF task_id \notin DOMAIN new THEN old[task_id]
        ELSE [new[task_id] EXCEPT
                 !.count = @ + (IF task_id \in DOMAIN old
                                THEN old[task_id].count ELSE 0)]]

Restart(fail) ==
    /\ pc = "run"
    /\ task_counter' = IF fail = "ids" THEN 0
                       ELSE initialize_task_counter(sheet)
    /\ pending_tasks' = EmptyMap
    /\ task_timers' = {}
    /\ paused_timers' = EmptyMap
    /\ in_flight' = {}
    /\ urgent_watchlist' = RecoveredWatchlist(sheet, now)
    /\ urgent_jobs' = RecoveredJobs(sheet, now)
    /\ alerts' = MergedAlerts(alerts, RecoveredAlerts(sheet, now))
    /\ arrivals' = [arrivals EXCEPT !.open = EmptyMap]
    /\ sheet_cache' = NoCache
    /\ stale_next' = now + STALE_CHECK_INTERVAL * MINUTE
    /\ restarts' = restarts + 1
    /\ report_next' = now + UNASSIGNED_REPORT_INTERVAL * MINUTE
    /\ UNCHANGED <<stale_limits, chat_posts>>
    /\ UNCHANGED <<now, end_time, retry, pc, cfg, sheet, next_message_id, cron_done,
                   published, deleted_msgs, stale_reports>>

(***************************************************************************)
(* get_cached_sheet_data, the read command /stats and the interval job     *)
(* check_stale_in_progress.                                                *)
(***************************************************************************)
\* _sheet_cache after a call at instant t when the sheet holds sh
get_cached_sheet_data(cache, sh, t) ==
    IF ~cache.filled \/ (t - cache.timestamp) > CACHE_TTL
    THEN [filled |-> TRUE, data |-> sh, timestamp |-> t]
    ELSE cache

cmd_stats(u) ==
    /\ pc = "run"
    /\ next_message_id <= cfg.messages
    /\ next_message_id' = next_message_id + 1
    /\ sheet_cache' = get_cached_sheet_data(sheet_cache, sheet, now)
    /\ UNCHANGED <<stale_next, stale_reports, restarts, stale_limits,
                   digest_vars>>
    /\ UNCHANGED <<now, end_time, retry, pc, cfg, arrivals, sheet, task_counter,
                   pending_tasks, task_timers, urgent_watchlist, paused_timers,
                   urgent_jobs, in_flight, cron_done, published, deleted_msgs,
                   alerts>>

\* /stats while SHEET.get_all_records raises: the refresh of a cache that
\* is empty or older than CACHE_TTL fails; a filled cache is returned as it
\* is, an empty one makes the command answer with an error
cmd_stats_read_fails(u) ==
    /\ pc = "run"
    /\ next_message_id <= cfg.messages
    /\ ~sheet_cache.filled \/ (now - sheet_cache.timestamp) > CACHE_TTL
    /\ next_message_id' = next_message_id + 1
    /\ UNCHANGED <<scan_vars, restarts, stale_limits, digest_vars>>
    /\ UNCHANGED <<now, end_time, retry, pc, cfg, arrivals, sheet, task_counter,
                   pending_tasks, task_timers, urgent_watchlist, paused_timers,
                   urgent_jobs, in_flight, cron_done, published, deleted_msgs,
                   alerts>>

\* max_hours of a priority, in seconds
max_hours(priority) ==
    (IF priority = PRIO_HIGH THEN stale_limits.limit.high
     ELSE IF priority = PRIO_MEDIUM THEN stale_limits.limit.medium
     ELSE stale_limits.limit.low) * MINUTE

\* whether the loop of the scan appends the record to stale_tasks
is_stale(record, t) ==
    /\ record.status = STATUS_IN_PROGRESS
    /\ Strip(record.executor) # <<>>
    /\ record.assigned # NoTime
    /\ t - record.assigned > max_hours(record.priority)

\* stale_tasks: one item per stale record, in the order of the records
RECURSIVE stale_tasks(_, _)
stale_tasks(records, t) ==
    IF records = <<>> THEN <<>>
    ELSE (IF is_stale(Head(records), t)
          THEN <<[id |-> Head(records).id,
                  priority |-> Head(records).priority,
                  overdue |-> (t - Head(records).assigned)
                                 - max_hours(Head(records).priority)]>>
          ELSE <<>>)
         \o stale_tasks(Tail(records), t)

check_stale_in_progress ==
    /\ pc = "run"
    /\ stale_next # NoTime
    /\ stale_next <= now
    /\ stale_next' = stale_next + STALE_CHECK_INTERVAL * MINUTE
    /\ UNCHANGED <<restarts, stale_limits, digest_vars>>
    /\ IF is_weekend(now) \/ is_quiet_hours(now)
       THEN UNCHANGED <<sheet_cache, stale_reports>>
       ELSE LET cache == get_cached_sheet_data(sheet_cache, sheet, now)
            IN /\ sheet_cache' = cache
               /\ stale_reports' =
                     Append(stale_reports,
                            [at |-> now, tasks |-> stale_tasks(cache.data, now)])
    /\ UNCHANGED <<now, end_time, retry, pc, cfg, arrivals, sheet, task_counter,
                   next_message_id, pending_tasks, task_timers,
                   urgent_watchlist, paused_timers, urgent_jobs, in_flight,
                   cron_done, published, deleted_msgs, alerts>>

(***************************************************************************)
(* The summary jobs of main(): morning_digest (cron 08:00),                *)
(* weekly_digest (cron Monday 09:00), check_overdue_unassigned (cron       *)
(* 10:00) and report_unassigned_non_urgent (interval).  fail names the     *)
(* call that raises: "none", or "read" for SHEET.get_all_records.  What a  *)
(* job sends to the discussion chat is recorded in chat_posts as           *)
(* [job, kind, at, items]: kind is "summary", "weekend" (the softer text  *)
(* of the morning digest) or "error", items the ids of                     *)
(* the tasks the text lists.                                               *)
(***************************************************************************)
DigestCrons(t) ==
    (IF SecOfDay(t) = 8 * HOUR THEN {"morning_digest"} ELSE {})
    \cup (IF Weekday(t) = 0 /\ SecOfDay(t) = 9 * HOUR
          THEN {"weekly_digest"} ELSE {})
    \cup (IF SecOfDay(t) = 10 * HOUR THEN {"overdue_check"} ELSE {})

NextDigestCron(t) ==
    LET midnight == t - SecOfDay(t)
        cands == {midnight + h * HOUR : h \in {8, 9, 10}}
                    \cup {midnight + DAY + 8 * HOUR}
    IN CHOOSE c \in cands : c > t /\ \A d \in cands : d > t => c <= d

\* whether get_cached_sheet_data goes to the sheet
cache_expired(cache, t) ==
    ~cache.filled \/ (t - cache.timestamp) > CACHE_TTL

\* get_cached_sheet_data with a read that may raise: the cache afterwards,
\* whether the call raises, and the records it returns
read_cached(cache, sh, t, fail) ==
    IF cache_expired(cache, t) /\ fail = "read"
    THEN [cache |-> cache, raised |-> ~cache.filled, data |-> cache.data]
    ELSE LET fresh == get_cached_sheet_data(cache, sh, t)
         IN [cache |-> fresh, raised |-> FALSE, data |-> fresh.data]

Post(job, kind, t, items) ==
    [job |-> job, kind |-> kind, at |-> t, items |-> items]

IdsWhere(records, keep) ==
    {records[i].id : i \in {k \in DOMAIN records : keep[k]}}

urgent_unassigned(records) ==
    IdsWhere(records, [k \in DOMAIN records |->
                          /\ records[k].status = STATUS_UNASSIGNED
                          /\ records[k].priority = PRIO_HIGH])

non_urgent_unassigned(records) ==
    IdsWhere(records, [k \in DOMAIN records |->
                          /\ records[k].status = STATUS_UNASSIGNED
                          /\ records[k].priority \in {PRIO_MEDIUM, PRIO_LOW}])

overdue_tasks(records, t) ==
    IdsWhere(records, [k \in DOMAIN records |->
                          /\ records[k].status = STATUS_UNASSIGNED
                          /\ records[k].created
                                < t - OVERDUE_HOURS_THRESHOLD * HOUR])

digest_stale(records, t) ==
    IdsWhere(records, [k \in DOMAIN records |->
                          /\ records[k].status = STATUS_IN_PROGRESS
                          /\ records[k].assigned # NoTime
                          /\ t - records[k].assigned
                                > max_hours(records[k].priority)])

\* the tasks created in the week before the current one
weekly_tasks(records, t) ==
    LET week_start == (t - SecOfDay(t)) - (Weekday(t) + 7) * DAY
    IN IdsWhere(records, [k \in DOMAIN records |->
                             /\ records[k].created >= week_start
                             /\ records[k].created < week_start + 7 * DAY])

\* what a summary job leaves alone
digest_frame ==
    /\ UNCHANGED <<stale_next, stale_reports, restarts, stale_limits>>
    /\ UNCHANGED <<now, end_time, retry, pc, cfg, arrivals, sheet, task_counter,
                   next_message_id, pending_tasks, task_timers,
                   urgent_watchlist, paused_timers, urgent_jobs, in_flight,
                   published, deleted_msgs, alerts>>

morning_digest(fail) ==
    /\ pc = "run"
    /\ "morning_digest" \in DigestCrons(now) \ cron_done
    /\ cron_done' = cron_done \cup {"morning_digest"}
    /\ IF is_quiet_hours(now)
       THEN fail = "none" /\ UNCHANGED <<sheet_cache, chat_posts>>
       ELSE LET r == read_cached(sheet_cache, sheet, now, fail)
            IN /\ fail = "none" \/ cache_expired(sheet_cache, now)
               /\ sheet_cache' = r.cache
               /\ chat_posts' =
                     IF r.raised THEN chat_posts
                     ELSE Append(chat_posts,
                                 Post("morning_digest",
                                      IF is_weekend(now) THEN "weekend"
                                      ELSE "summary", now,
                                      urgent_unassigned(r.data)
                                         \cup overdue_tasks(r.data, now)
                                         \cup digest_stale(r.data, now)))
    /\ UNCHANGED report_next
    /\ digest_frame

check_overdue_unassigned(fail) ==
    /\ pc = "run"
    /\ "overdue_check" \in DigestCrons(now) \ cron_done
    /\ cron_done' = cron_done \cup {"overdue_check"}
    /\ IF is_quiet_hours(now) \/ is_weekend(now)
       THEN fail = "none" /\ UNCHANGED <<sheet_cache, chat_posts>>
       ELSE LET r == read_cached(sheet_cache, sheet, now, fail)
                overdue == overdue_tasks(r.data, now)
            IN /\ fail = "none" \/ cache_expired(sheet_cache, now)
               /\ sheet_cache' = r.cache
               /\ chat_posts' =
                     IF r.raised \/ overdue = {} THEN chat_posts
                     ELSE Append(chat_posts,
                                 Post("overdue_check", "summary", now, overdue))
    /\ UNCHANGED report_next
    /\ digest_frame

report_unassigned_non_urgent(fail) ==
    /\ pc = "run"
    /\ report_next # NoTime
    /\ report_next <= now
    /\ report_next' = report_next + UNASSIGNED_REPORT_INTERVAL * MINUTE
    /\ IF is_weekend(now) \/ is_quiet_hours(now)
       THEN fail = "none" /\ UNCHANGED <<sheet_cache, chat_posts>>
       ELSE LET r == read_cached(sheet_cache, sheet, now, fail)
                tasks == non_urgent_unassigned(r.data)
            IN /\ fail = "none" \/ cache_expired(sheet_cache, now)
               /\ sheet_cache' = r.cache
               /\ chat_posts' =
                     IF r.raised \/ tasks = {} THEN chat_posts
                     ELSE Append(chat_posts,
                                 Post("non_urgent_unassigned_report",
                                      "summary", now, tasks))
    /\ UNCHANGED cron_done
    /\ digest_frame

\* weekly_digest reads through safe_get_all_records, not the cache
weekly_digest(fail) ==
    /\ pc = "run"
    /\ "weekly_digest" \in DigestCrons(now) \ cron_done
    /\ cron_done' = cron_done \cup {"weekly_digest"}
    /\ chat_posts' =
          Append(chat_posts,
                 IF fail = "read"
                 THEN Post("weekly_digest", "error", now, {})
                 ELSE Post("weekly_digest", "summary", now,
                           weekly_tasks(sheet, now)))
    /\ UNCHANGED <<sheet_cache, report_next>>
    /\ digest_frame

(***************************************************************************)
(* The clock advances to instant t; no due timer or cron job is skipped,   *)
(* and a chat send in progress completes before the clock moves.           *)
(***************************************************************************)
Advance(t) ==
    /\ pc = "run"
    /\ t > now
    /\ t <= end_time
    /\ NothingDue(t)
    /\ in_flight = {}
    /\ CronsDue(now) \subseteq cron_done
    /\ t <= NextCron(now)
    /\ now' = t
    /\ cron_done' = {}
    /\ UNCHANGED <<scan_vars, restarts, stale_limits, digest_vars>>
    /\ UNCHANGED <<end_time, retry, pc, cfg, arrivals, sheet, task_counter,
                   next_message_id,
                   pending_tasks, task_timers, urgent_watchlist, paused_timers,
                   urgent_jobs, in_flight, published, deleted_msgs, alerts>>

JobDues == {j.due : j \in task_timers} \cup {j.due : j \in urgent_jobs}

(***************************************************************************)
(* The aggregator alone: messages a few seconds apart.                     *)
(***************************************************************************)
AggTexts ==
    { <<"#", "cyr_Z", " ", "T">>,
      <<"#", "cyr_Z", " ", "T", NL, "d">>,
      <<"#", "cyr_Z">>,
      <<"a">>,
      <<" ", "b", NL>> }

\* a run: the instants at which the clock starts and stops, and the sheets
\* the process may find when it starts
Run(start, end, sheets) == [start |-> start, end |-> end, sheets |-> sheets]

InitCalls(runs, configs, limits, calls) ==
    /\ retry \in calls
    /\ \E run \in runs :
          /\ now = run.start
          /\ end_time = run.end
          /\ sheet \in run.sheets
    /\ pc = "boot"
    /\ cfg \in configs
    /\ task_counter = 0
    /\ next_message_id = 1
    /\ pending_tasks = EmptyMap
    /\ task_timers = {}
    /\ urgent_watchlist = EmptyMap
    /\ paused_timers = EmptyMap
    /\ urgent_jobs = {}
    /\ in_flight = {}
    /\ cron_done = {}
    /\ published = {}
    /\ deleted_msgs = {}
    /\ alerts = EmptyMap
    /\ arrivals = [open |-> EmptyMap, filed |-> EmptyMap]
    /\ sheet_cache = NoCache
    /\ stale_next = NoTime
    /\ stale_reports = <<>>
    /\ restarts = 0
    /\ stale_limits \in limits
    /\ report_next = NoTime
    /\ chat_posts = <<>>

InitEnv(runs, configs, limits) == InitCalls(runs, configs, limits, {NotCalled})

InitWith(runs, configs) == InitEnv(runs, configs, {Validated(DEFAULT_LIMITS)})

NoRows == {<<>>}

\* a configuration together with the limits on the traffic of a run
Traffic(c, tasks, parts, messages) ==
    [delay |-> c.delay, interval |-> c.interval,
     tasks |-> tasks, parts |-> parts, messages |-> messages]

InitAgg ==
    InitWith({Run(12 * HOUR, 12 * HOUR + AggHorizon, NoRows)},
             {Traffic(DEFAULT_CONFIG, MaxTasks, MaxParts, MaxMessages)})

NextAgg ==
    \/ Startup
    \/ \E u \in Users, text \in AggTexts : handle_new_task(u, text)
    \/ \E job \in task_timers : finalize_task_job(job, "none")
    \/ \E t \in {now + AggStep} \cup JobDues : Advance(t)

SpecAgg == InitAgg /\ [][NextAgg]_vars

(***************************************************************************)
(* The whole bot over one night: the clock starts EveningWindow minutes    *)
(* before the 21:00 pause of a Thursday (a workday follows) or of a Friday *)
(* (a weekend follows) and stops MorningWindow minutes after the 08:01     *)
(* resume of the next workday.  The clock moves from one scheduled job to  *)
(* the next; users act at any of these instants.  Every external call      *)
(* succeeds.                                                               *)
(***************************************************************************)
LifeTexts ==
    { <<"#", "cyr_Z", " ", "#", "h", "i", "g", "h", " ", "T">>,
      <<"#", "cyr_Z", " ", "T">> }

ReplyTexts ==
    { <<"@", "b", "o", "b">>,
      <<"cyr_G", "cyr_o", "cyr_t", "cyr_o", "cyr_v", "cyr_o">>,
      <<"#", "cyr_o", "cyr_p", "cyr_e", "cyr_r">>,
      <<"o", "k">> }

\* a night runs from the evening of weekday number d (Monday is 0) to the
\* morning of weekday number e
NightStart(d) == d * DAY + PAUSE_AT - EveningWindow * MINUTE

NightEnd(e) == e * DAY + RESUME_AT + MorningWindow * MINUTE

Nights == {<<3, 4>>, <<4, 7>>}

PreRow(task_id, created, status, priority) ==
    [NewRow(task_id, created, <<"P">>, <<>>, <<"A", "n", "n">>, priority)
        EXCEPT !.status = status]

\* the sheet at process start: empty, or one unassigned high-priority task
SheetsAtStart(t) ==
    { <<>>,
      <<PreRow(1, t - PreElapsed * MINUTE, STATUS_UNASSIGNED, PRIO_HIGH)>> }

Init ==
    InitWith({Run(NightStart(n[1]), NightEnd(n[2]), SheetsAtStart(NightStart(n[1]))) :
                 n \in Nights},
             {Traffic(DEFAULT_CONFIG, LifeTasks, LifeParts, LifeMessages)})

Next ==
    \/ Startup
    \/ \E u \in Users, text \in LifeTexts : handle_new_task(u, text)
    \/ \E job \in task_timers : finalize_task_job(job, "none")
    \/ \E u \in Users, text \in ReplyTexts, task_id \in 1..task_counter :
          handle_task_reply(u, text, task_id)
    \/ \E u \in Users, task_id \in 1..task_counter : cmd_operational(u, task_id)
    \/ \E job \in urgent_jobs : check_urgent_unassigned_begin(job)
    \/ \E f \in in_flight : check_urgent_unassigned_end(f, "none")
    \/ pause_all_timers
    \/ resume_all_timers
    \/ \E t \in JobDues \cup {NextCron(now), end_time} : Advance(t)

Spec == Init /\ [][Next]_vars

(***************************************************************************)
(* The status state machine alone: one unassigned task of medium or of     *)
(* high priority                                                           *)
(* is in the sheet at a Wednesday noon; users reply to its announcement    *)
(* with the trigger texts and send /oper, minute after minute.             *)
(***************************************************************************)
TriggerTexts ==
    { <<"@", "b", "o", "b">>,
      <<"cyr_G", "cyr_o", "cyr_t", "cyr_o", "cyr_v", "cyr_o">>,
      <<"#", "cyr_o", "cyr_p", "cyr_e", "cyr_r">> }

OneMediumRow(t) ==
    {<<PreRow(1, t - PreElapsed * MINUTE, STATUS_UNASSIGNED, PRIO_MEDIUM)>>}

\* the same task with high priority: the startup recovery registers its
\* escalation entry and timer
OneHighRow(t) ==
    {<<PreRow(1, t - PreElapsed * MINUTE, STATUS_UNASSIGNED, PRIO_HIGH)>>}

InitStatus ==
    InitWith({Run(2 * DAY + 12 * HOUR,
                  2 * DAY + 12 * HOUR + StatusHorizon * MINUTE,
                  OneMediumRow(2 * DAY + 12 * HOUR)
                     \cup OneHighRow(2 * DAY + 12 * HOUR))},
             {Traffic(DEFAULT_CONFIG, 1, 0, StatusMessages)})

NextStatus ==
    \/ Startup
    \/ \E u \in Users, text \in TriggerTexts, task_id \in 1..task_counter :
          handle_task_reply(u, text, task_id)
    \/ \E u \in Users, task_id \in 1..task_counter : cmd_operational(u, task_id)
    \/ Advance(now + MINUTE)

SpecStatus == InitStatus /\ [][NextStatus]_vars

(***************************************************************************)
(* Replies whose handler is abandoned: the same two sheets, and a reply    *)
(* may lose its notice to the chat or the second write of its branch.      *)
(***************************************************************************)
ReplyFaults == {"none", "notify"}

InitAbandon ==
    InitWith({Run(2 * DAY + 12 * HOUR,
                  2 * DAY + 12 * HOUR + AbandonHorizon * MINUTE,
                  OneMediumRow(2 * DAY + 12 * HOUR)
                     \cup OneHighRow(2 * DAY + 12 * HOUR))},
             {Traffic(DEFAULT_CONFIG, 1, 0, AbandonMessages)})

NextAbandon ==
    \/ Startup
    \/ \E u \in Users, text \in TriggerTexts, task_id \in TaskIds,
          fail \in ReplyFaults : task_reply(u, text, task_id, fail)
    \/ \E u \in Users, text \in TriggerTexts, task_id \in TaskIds :
          task_reply_write_fails(u, text, task_id)
    \/ Advance(now + MINUTE)

SpecAbandon == InitAbandon /\ [][NextAbandon]_vars

(***************************************************************************)
(* Replies that carry two triggers at once: the same two sheets, and the   *)
(* reply texts combine a handle, a completion keyword and the operational  *)
(* tag in either order.                                                    *)
(***************************************************************************)
PrecedenceTexts ==
    { <<"@", "b", "o", "b", " ", "cyr_g", "cyr_o", "cyr_t", "cyr_o", "cyr_v", "cyr_o">>,
      <<"cyr_G", "cyr_o", "cyr_t", "cyr_o", "cyr_v", "cyr_o", " ", "@", "a", "n", "n">>,
      <<"cyr_g", "cyr_o", "cyr_t", "cyr_o", "cyr_v", "cyr_o", " ", "#", "cyr_o", "cyr_p", "cyr_e", "cyr_r">>,
      <<"#", "cyr_o", "cyr_p", "cyr_e", "cyr_r", " ", "@", "a", "n", "n">>,
      <<"#", "cyr_o", "cyr_p", "cyr_e", "cyr_r">>,
      <<"o", "k", " ", "@">> }

InitPrecedence ==
    InitWith({Run(2 * DAY + 12 * HOUR,
                  2 * DAY + 12 * HOUR + PrecedenceHorizon * MINUTE,
                  OneMediumRow(2 * DAY + 12 * HOUR)
                     \cup OneHighRow(2 * DAY + 12 * HOUR))},
             {Traffic(DEFAULT_CONFIG, 1, 0, PrecedenceMessages)})

NextPrecedence ==
    \/ Startup
    \/ \E u \in Users, text \in PrecedenceTexts, task_id \in TaskIds :
          handle_task_reply(u, text, task_id)
    \/ Advance(now + MINUTE)

SpecPrecedence == InitPrecedence /\ [][NextPrecedence]_vars

(***************************************************************************)
(* One call of a wrapped store operation: the wrapped function answers its *)
(* successive calls with any outcomes, a result, a transient error or an   *)
(* error of another type; nothing else of the program runs.                *)
(***************************************************************************)
InitRetry ==
    InitCalls({Run(12 * HOUR, 12 * HOUR, NoRows)},
              {Traffic(DEFAULT_CONFIG, 0, 0, 0)},
              {Validated(DEFAULT_LIMITS)},
              {Call(func) : func \in [1..RetryCalls -> Outcomes]})

NextRetry ==
    \/ wrapper
    \/ wrapper_attempt
    \/ wrapper_exhausted

SpecRetry == InitRetry /\ [][NextRetry]_vars

\* every call of the wrapped function returns or raises, and the sleep
\* between two attempts ends
SpecRetryLive == SpecRetry /\ WF_vars(NextRetry)

(***************************************************************************)
(* Startup recovery: the process starts on a Thursday noon, on a Thursday  *)
(* at 23:00 or on a Saturday noon, with a configuration of (delay,         *)
(* interval) and a sheet of up to RecoverRows tasks created some minutes   *)
(* and seconds before; the recovered timers then fire.                     *)
(***************************************************************************)
RecoverStarts == {3 * DAY + 12 * HOUR, 3 * DAY + 23 * HOUR, 5 * DAY + 12 * HOUR}

RecoverConfigs == {DEFAULT_CONFIG, [delay |-> 3, interval |-> 2]}

\* seconds since the creation of a recovered task
RecoverAges == {m * MINUTE + sec : m \in {2, 5, 12}, sec \in {0, 30}}

RecoverCandidates ==
    {[age |-> a, status |-> STATUS_UNASSIGNED] : a \in RecoverAges}
    \cup {[age |-> 12 * MINUTE, status |-> STATUS_IN_PROGRESS]}

RecoverSheets(t) ==
    UNION {{[k \in 1..n |-> PreRow(k, t - c[k].age, c[k].status, PRIO_HIGH)] :
               c \in [1..n -> RecoverCandidates]} : n \in 1..RecoverRows}

InitRecover ==
    InitWith({Run(t, t + RecoverHorizon * MINUTE, RecoverSheets(t)) :
                 t \in RecoverStarts},
             {Traffic(c, 0, 0, 0) : c \in RecoverConfigs})

NextRecover ==
    \/ Startup
    \/ \E job \in urgent_jobs : check_urgent_unassigned_begin(job)
    \/ \E f \in in_flight : check_urgent_unassigned_end(f, "none")
    \/ \E t \in JobDues \cup {end_time} : Advance(t)

SpecRecover == InitRecover /\ [][NextRecover]_vars

(***************************************************************************)
(* The cadence of one task over a night: in the evening window of a        *)
(* Thursday or a Friday, at some whole minute, a user posts one            *)
(* high-priority task; nobody takes it.  The configurations differ in      *)
(* (delay, interval).                                                      *)
(***************************************************************************)
CadenceConfigs ==
    {DEFAULT_CONFIG, [delay |-> 2, interval |-> 3], [delay |-> 3, interval |-> 1]}

HighTag == <<"#", "cyr_Z", " ", "#", "h", "i", "g", "h", " ", "T">>

EveningTicks ==
    IF /\ SecOfDay(now) >= PAUSE_AT - EveningWindow * MINUTE
       /\ SecOfDay(now) < PAUSE_AT
       /\ task_counter = 0
    THEN {now + MINUTE} ELSE {}

InitCadence ==
    InitWith({Run(NightStart(n[1]), NightEnd(n[2]), NoRows) : n \in Nights},
             {Traffic(c, 1, 0, 1) : c \in CadenceConfigs})

NextCadence ==
    \/ Startup
    \/ \E u \in Users : handle_new_task(u, HighTag)
    \/ \E job \in task_timers : finalize_task_job(job, "none")
    \/ \E job \in urgent_jobs : check_urgent_unassigned_begin(job)
    \/ \E f \in in_flight : check_urgent_unassigned_end(f, "none")
    \/ pause_all_timers
    \/ resume_all_timers
    \/ \E t \in JobDues \cup {NextCron(now), end_time} \cup EveningTicks :
          Advance(t)

SpecCadence == InitCadence /\ [][NextCadence]_vars

(***************************************************************************)
(* A working day with failures: from a Wednesday noon, user ann posts      *)
(* tasks of low and of high priority; users reply to the announcements     *)
(* with texts that carry priority hashtags and send /oper; the escalation  *)
(* runs with a delay and an interval of one minute.  The publish or the    *)
(* append of a finalize, the sheet read or the send of a firing, and the   *)
(* chat notice that follows a reply may fail,                              *)
(* and the process may be restarted, with or without a failure of the read *)
(* of the id column.                                                       *)
(***************************************************************************)
DeskTexts ==
    { <<"#", "cyr_Z", " ", "#", "l", "o", "w", " ", "T">>,
      <<"#", "cyr_Z", " ", "#", "h", "i", "g", "h", " ", "T">> }

DeskReplies ==
    { <<"@", "b", "o", "b", " ", "#", "h", "i", "g", "h">>,
      <<"cyr_g", "cyr_o", "cyr_t", "cyr_o", "cyr_v", "cyr_o", " ", "#", "l", "o", "w">>,
      <<"#", "cyr_o", "cyr_p", "cyr_e", "cyr_r", " ", "#", "h", "i", "g", "h">> }

FinalizeFaults == {"none", "publish", "append"}

FiringFaults == {"none", "send"}

RestartFaults == {"none", "ids"}

InitDesk ==
    InitWith({Run(2 * DAY + 12 * HOUR,
                  2 * DAY + 12 * HOUR + DeskHorizon * MINUTE, NoRows)},
             {Traffic([delay |-> 1, interval |-> 1], DeskTasks, 0, DeskMessages)})

NextDesk ==
    \/ Startup
    \/ \E text \in DeskTexts : handle_new_task("ann", text)
    \/ \E job \in task_timers, fail \in FinalizeFaults :
          finalize_task_job(job, fail)
    \/ \E u \in Users, text \in DeskReplies, task_id \in TaskIds,
          fail \in ReplyFaults : task_reply(u, text, task_id, fail)
    \/ \E u \in Users, task_id \in TaskIds : cmd_operational(u, task_id)
    \/ \E job \in urgent_jobs : check_urgent_unassigned_begin(job)
    \/ \E job \in urgent_jobs : check_urgent_unassigned_read_fails(job)
    \/ \E f \in in_flight, fail \in FiringFaults :
          check_urgent_unassigned_end(f, fail)
    \/ \E fail \in RestartFaults : restarts < MaxRestarts /\ Restart(fail)
    \/ \E t \in JobDues \cup {end_time} : Advance(t)

SpecDesk == InitDesk /\ [][NextDesk]_vars

(***************************************************************************)
(* The stale scan: the process starts on a Wednesday noon with up to       *)
(* StaleRows tasks in the sheet, assigned some hours before; the scan runs *)
(* every STALE_CHECK_INTERVAL minutes.  In the StaleLead seconds before a  *)
(* scan the clock moves in steps of StaleStep seconds, and users send      *)
(* /stats, reply to the announcements and send /oper.                      *)
(***************************************************************************)
AssignedRow(task_id, status, priority, assigned) ==
    [PreRow(task_id, assigned - HOUR, status, priority)
        EXCEPT !.executor = <<"B", "o", "b">>, !.assigned = assigned]

\* the rows a sheet is made of: [status, priority, seconds since assignment
\* at the first scan]
StaleCandidates ==
    { [status |-> STATUS_IN_PROGRESS, priority |-> PRIO_MEDIUM, age |-> 6 * HOUR],
      [status |-> STATUS_IN_PROGRESS, priority |-> PRIO_MEDIUM, age |-> 5 * HOUR],
      [status |-> STATUS_IN_PROGRESS, priority |-> PRIO_HIGH, age |-> HOUR + 15 * MINUTE],
      [status |-> STATUS_IN_PROGRESS, priority |-> PRIO_LOW, age |-> 6 * HOUR],
      [status |-> STATUS_OPERATIONAL, priority |-> PRIO_MEDIUM, age |-> 6 * HOUR],
      [status |-> STATUS_DONE, priority |-> PRIO_MEDIUM, age |-> 6 * HOUR] }

StaleSheets(t) ==
    UNION {{[k \in 1..n |->
                IF k = n /\ unassigned
                THEN PreRow(k, t - HOUR, STATUS_UNASSIGNED, PRIO_HIGH)
                ELSE AssignedRow(k, c[k].status, c[k].priority,
                                 t + STALE_CHECK_INTERVAL * MINUTE - c[k].age)] :
               c \in [1..n -> StaleCandidates], unassigned \in BOOLEAN} :
           n \in 1..StaleRows}

\* the instants the clock may move to: the start of the lead of the next
\* scan, then step by step up to the scan
ScanTicks ==
    IF stale_next = NoTime THEN {}
    ELSE IF now < stale_next - StaleLead THEN {stale_next - StaleLead}
    ELSE IF now + StaleStep <= stale_next THEN {now + StaleStep}
    ELSE {stale_next}

InitStale ==
    InitWith({Run(2 * DAY + 12 * HOUR,
                  2 * DAY + 12 * HOUR + StaleScans * STALE_CHECK_INTERVAL * MINUTE,
                  StaleSheets(2 * DAY + 12 * HOUR))},
             {Traffic(DEFAULT_CONFIG, 0, 0, StaleMessages)})

NextStale ==
    \/ Startup
    \/ cmd_stats("ann")
    \/ cmd_stats_read_fails("ann")
    \/ \E text \in TriggerTexts, task_id \in TaskIds :
          handle_task_reply("ann", text, task_id)
    \/ \E task_id \in TaskIds : cmd_operational("ann", task_id)
    \/ check_stale_in_progress
    \/ \E t \in ScanTicks : t <= stale_next /\ Advance(t)

SpecStale == InitStale /\ [][NextStale]_vars

(***************************************************************************)
(* The stale budgets of the environment: the module is loaded on Wednesday *)
(* at noon with minutes configured for each priority, validates them,      *)
(* and the scan of 12:30 applies the limits in force to three tasks in     *)
(* progress.                                                               *)
(***************************************************************************)
ConfiguredMinutes ==
    [high : {0, 3, 5, 6, 7, 30, 60},
     medium : {0, 59, 60, 61, 300},
     low : {60, 239, 240, 241, 1440}]

\* the globals after lines 76-78: the limits are the configured minutes
Configured(configured) ==
    [configured |-> configured, limit |-> configured, validated |-> FALSE]

LimitSheet(t) ==
    <<AssignedRow(1, STATUS_IN_PROGRESS, PRIO_HIGH, t - 15 * MINUTE),
      AssignedRow(2, STATUS_IN_PROGRESS, PRIO_MEDIUM, t - 2 * HOUR),
      AssignedRow(3, STATUS_IN_PROGRESS, PRIO_LOW, t - 5 * HOUR)>>

InitLimits ==
    InitEnv({Run(2 * DAY + 12 * HOUR,
                 2 * DAY + 12 * HOUR + STALE_CHECK_INTERVAL * MINUTE,
                 {LimitSheet(2 * DAY + 12 * HOUR)})},
            {Traffic(DEFAULT_CONFIG, 0, 0, 0)},
            {Configured(c) : c \in ConfiguredMinutes})

NextLimits ==
    \/ validate_stale_limits
    \/ Startup
    \/ check_stale_in_progress
    \/ \E t \in ScanTicks : t <= stale_next /\ Advance(t)

SpecLimits == InitLimits /\ [][NextLimits]_vars

(***************************************************************************)
(* The summary jobs of a Monday morning: the process starts at 07:30 with  *)
(* tasks filed in the week before; the reads of the sheet may fail.        *)
(***************************************************************************)
ReadFaults == {"none", "read"}

DigestRows(t) ==
    { <<>>,
      <<PreRow(1, t - 30 * HOUR, STATUS_UNASSIGNED, PRIO_MEDIUM)>>,
      <<PreRow(1, t - 30 * HOUR, STATUS_UNASSIGNED, PRIO_HIGH),
        AssignedRow(2, STATUS_IN_PROGRESS, PRIO_MEDIUM, t - 6 * HOUR)>>,
      <<AssignedRow(1, STATUS_DONE, PRIO_LOW, t - 60 * HOUR),
        PreRow(2, t - HOUR, STATUS_UNASSIGNED, PRIO_LOW)>> }

InitDigest ==
    InitWith({Run(7 * DAY + 7 * HOUR + 30 * MINUTE, 7 * DAY + 10 * HOUR,
                  DigestRows(7 * DAY + 7 * HOUR + 30 * MINUTE))},
             {Traffic(DEFAULT_CONFIG, 0, 0, DigestMessages)})

DigestTicks ==
    {stale_next, report_next, NextCron(now), NextDigestCron(now), end_time}

NextDigest ==
    \/ Startup
    \/ cmd_stats("ann")
    \/ \E text \in TriggerTexts, task_id \in TaskIds :
          handle_task_reply("ann", text, task_id)
    \/ \E fail \in ReadFaults : morning_digest(fail)
    \/ \E fail \in ReadFaults : weekly_digest(fail)
    \/ \E fail \in ReadFaults : check_overdue_unassigned(fail)
    \/ \E fail \in ReadFaults : report_unassigned_non_urgent(fail)
    \/ check_stale_in_progress
    \/ resume_all_timers
    \/ \E t \in DigestTicks :
          /\ t <= stale_next
          /\ t <= report_next
          /\ t <= NextDigestCron(now)
          /\ DigestCrons(now) \subseteq cron_done
          /\ Advance(t)

SpecDigest == InitDigest /\ [][NextDigest]_vars

(***************************************************************************)
(* The same jobs over the mornings of a week: the process starts at 07:30  *)
(* on a Monday, a Friday, a Saturday or a Sunday and runs until 10:00.     *)
(***************************************************************************)
MorningStarts == {(7 + d) * DAY + 7 * HOUR + 30 * MINUTE : d \in {0, 4, 5, 6}}

InitWeekend ==
    InitWith({Run(t, t + 2 * HOUR + 30 * MINUTE, DigestRows(t)) :
                 t \in MorningStarts},
             {Traffic(DEFAULT_CONFIG, 0, 0, DigestMessages)})

SpecWeekend == InitWeekend /\ [][NextDigest]_vars

(***************************************************************************)
(* Properties of the status state machine                                  *)
(***************************************************************************)
\* the status changes of the rows in one step
StatusSteps ==
    {<<sheet[i].status, sheet'[i].status>> :
        i \in {k \in 1..Len(sheet) : sheet'[k].status # sheet[k].status}}

ThreePathSteps ==
    { <<STATUS_UNASSIGNED, STATUS_IN_PROGRESS>>,
      <<STATUS_IN_PROGRESS, STATUS_DONE>>,
      <<STATUS_UNASSIGNED, STATUS_OPERATIONAL>>,
      <<STATUS_OPERATIONAL, STATUS_DONE>>,
      <<STATUS_OPERATIONAL, STATUS_IN_PROGRESS>> }

OpenStatuses == {STATUS_UNASSIGNED, STATUS_IN_PROGRESS, STATUS_OPERATIONAL}

\* C1 as stated: every status change of a row is a step of one of the paths
\* Unassigned->InProgress->Done, Unassigned->Operational->Done,
\* Unassigned->Operational->InProgress->Done.
C1_ThreePathsOnly == [][StatusSteps \subseteq ThreePathSteps]_vars

\* C1, amended: every status change of a row leaves an open status
\* (Unassigned, InProgress, Operational) for InProgress, Operational or Done;
\* no row returns to Unassigned and no row leaves Done.  Unassigned->Done and
\* InProgress->Operational do occur.
C1_StatusSteps ==
    [][StatusSteps \subseteq
          (OpenStatuses \X {STATUS_IN_PROGRESS, STATUS_OPERATIONAL, STATUS_DONE})]_vars

\* a task completed while unassigned, and a task made operational after it
\* was assigned
C1_DirectDone ==
    \E i \in 1..Len(sheet) :
        /\ sheet[i].status = STATUS_DONE
        /\ sheet[i].assigned = NoTime
        /\ sheet[i].executor = <<>>

\* C2: once the status of a row is Done, no step changes any field of it.
C2_DoneTerminal ==
    [][\A i \in 1..Len(sheet) :
          sheet[i].status = STATUS_DONE => sheet'[i] = sheet[i]]_vars

\* a message was handled for the task after the reply that completed it
C2_MessageAfterDone ==
    /\ Len(sheet) = 1
    /\ sheet[1].status = STATUS_DONE
    /\ deleted_msgs # {}
    /\ next_message_id - 1 > MaxOf(deleted_msgs)

(***************************************************************************)
(* Properties of the aggregator                                            *)
(***************************************************************************)
\* C3 as stated: a tag message that arrives while an aggregation is pending
\* for its key finalizes that aggregation and opens a fresh one, so no
\* pending aggregation ever holds a tag message after its first message.
C3_TagOpensFreshAggregation ==
    \A key \in DOMAIN arrivals.open :
        \A n \in 2..Len(arrivals.open[key]) :
            ~IsTagText(Strip(arrivals.open[key][n]))

\* the description the claim describes: the description part of the tag
\* message, then the texts that followed, joined by newline
RECURSIVE Fragments(_)
Fragments(texts) ==
    IF texts = <<>> THEN <<>>
    ELSE <<Strip(Head(texts))>> \o Fragments(Tail(texts))

ExpectedDescription(texts) ==
    LET first == extract_topic_and_desc(Strip(Head(texts))).desc
    IN JoinNL((IF first # <<>> THEN <<first>> ELSE <<>>)
              \o Fragments(Tail(texts)))

OnlyTextsFollow(texts) ==
    \A n \in 2..Len(texts) : ~IsTagText(Strip(texts[n]))

\* C4: the description of a task made of one tag message followed by non-tag
\* messages is the description part of the tag message followed by the
\* texts of those messages, joined by newline in arrival order.
C4_Description ==
    \A i \in 1..Len(sheet) :
        (sheet[i].id \in DOMAIN arrivals.filed
            /\ OnlyTextsFollow(arrivals.filed[sheet[i].id]))
        => sheet[i].description = ExpectedDescription(arrivals.filed[sheet[i].id])

\* a task made of a tag message with a description part and two more texts
C4_ThreeFragments ==
    \E i \in 1..Len(sheet) :
        /\ sheet[i].id \in DOMAIN arrivals.filed
        /\ LET texts == arrivals.filed[sheet[i].id]
           IN /\ Len(texts) = 3
              /\ OnlyTextsFollow(texts)
              /\ extract_topic_and_desc(Strip(texts[1])).desc # <<>>
              /\ texts[2] # texts[3]

(***************************************************************************)
(* Properties of the escalation watchdog                                   *)
(***************************************************************************)
RowOf(task_id) == sheet[FindRow(sheet, task_id)]

AlertCount(task_id) ==
    IF task_id \in DOMAIN alerts THEN alerts[task_id].count ELSE 0

HasEntry(task_id) ==
    task_id \in DOMAIN urgent_watchlist \/ task_id \in DOMAIN paused_timers

HasTimer(task_id) == \E j \in urgent_jobs : j.task_id = task_id

Firing(task_id) == \E f \in in_flight : f.task_id = task_id

\* working time, counted from the resume job of the day
InWorkingTime(t) ==
    /\ is_weekday(t)
    /\ SecOfDay(t) >= RESUME_AT
    /\ SecOfDay(t) < PAUSE_AT

Later(a, b) == IF a >= b THEN a ELSE b

\* the instant from which the task is owed alerts in the working period of t
OwedSince(row, t) ==
    Later(row.created + URGENT_UNASSIGNED_DELAY * MINUTE,
          t - SecOfDay(t) + RESUME_AT)

\* C5 as stated: while a high-priority task stays unassigned, no stretch of
\* working time after creation + delay that is longer than one interval
\* passes without an alert for it.  (Evaluated when every due timer has
\* fired.)
C5_NoSilentInterval ==
    \A i \in 1..Len(sheet) :
        (/\ Eligible(sheet[i])
         /\ InWorkingTime(now)
         /\ NothingDue(now + 1)
         /\ in_flight = {}
         /\ now - OwedSince(sheet[i], now) > URGENT_UNASSIGNED_INTERVAL * MINUTE)
        => /\ sheet[i].id \in DOMAIN alerts
           /\ alerts[sheet[i].id].last_at >= now - URGENT_UNASSIGNED_INTERVAL * MINUTE

\* C7 as stated: the escalation entry of a task (active or paused) is
\* removed by every step that takes the task out of Unassigned, and by no
\* step that leaves the task unassigned and high in the sheet.
C7_EntryLifetime ==
    [][\A task_id \in TaskIds :
          /\ (RowOf(task_id).status = STATUS_UNASSIGNED
                 /\ RowOf(task_id)'.status # STATUS_UNASSIGNED)
             => ~HasEntry(task_id)'
          /\ (HasEntry(task_id) /\ Eligible(RowOf(task_id))')
             => HasEntry(task_id)']_vars

\* the task has been assigned or completed and has no entry left
Removed(task_id) ==
    /\ RowOf(task_id).status # STATUS_UNASSIGNED
    /\ ~HasEntry(task_id)

\* C8: once a task has left Unassigned and its entry is removed, no alert
\* for it is sent, the entry does not come back, and when no firing for it
\* is in progress it has no pending timer.
C8_NoAlertAfterRemoval ==
    [][\A task_id \in TaskIds :
          Removed(task_id)
          => /\ AlertCount(task_id)' = AlertCount(task_id)
             /\ Removed(task_id)'
             /\ ~Firing(task_id)' => ~HasTimer(task_id)']_vars

\* a task assigned or completed while the alert of its firing was being sent
C8_RemovedDuringSend ==
    \E f \in in_flight :
        /\ f.task_id \in TaskIds
        /\ Removed(f.task_id)
        /\ RowOf(f.task_id).status \in {STATUS_IN_PROGRESS, STATUS_DONE}

\* C6 as stated: no alert is sent while the clock is inside quiet hours or
\* on a non-workday, whichever path sends it.
C6_QuietWindowRespected ==
    [][alerts' # alerts => (~is_quiet_hours(now) /\ ~is_weekend(now))]_vars

JobDuesOf(jobs, task_id) == {j.due : j \in {x \in jobs : x.task_id = task_id}}

\* C10: at a start on a workday, a recovered task with e minutes elapsed
\* gets, if e >= delay, one catch-up alert and a check
\* interval - ((e - delay) mod interval) minutes later, which lands on the
\* cadence delay, delay + interval, ... counted from creation; if e < delay
\* it gets no alert and a check delay - e minutes later.
C10_RecoveryPhase ==
    [][(pc = "boot" /\ pc' = "run" /\ is_weekday(now))
       => \A k \in 1..Len(sheet) :
             Recoverable(sheet[k])
             => LET e == ElapsedMinutes(now, sheet[k].created)
                    d == cfg.delay
                    i == cfg.interval
                    task_id == sheet[k].id
                    dues == JobDuesOf(urgent_jobs', task_id)
                IN IF e >= d
                   THEN /\ AlertCount(task_id)' = 1
                        /\ dues = {now + (i - ((e - d) % i)) * MINUTE}
                        /\ \A due \in dues :
                              (e + (due - now) \div MINUTE - d) % i = 0
                   ELSE /\ AlertCount(task_id)' = 0
                        /\ dues = {now + (d - e) * MINUTE}]_vars

\* a task created 12 minutes before the start with delay 5 and interval 5:
\* one alert and a check in 3 minutes
C10_TwelveMinutes ==
    /\ pc = "run"
    /\ cfg.delay = 5 /\ cfg.interval = 5
    /\ \E k \in 1..Len(sheet) :
          /\ Recoverable(sheet[k])
          /\ now - sheet[k].created = 12 * MINUTE
          /\ AlertCount(sheet[k].id) = 1
          /\ JobDuesOf(urgent_jobs, sheet[k].id) = {now + 3 * MINUTE}

\* the alerts of an uninterrupted run that lasts w seconds from creation
uninterrupted_count(w) ==
    IF w < URGENT_UNASSIGNED_DELAY * MINUTE THEN 0
    ELSE (w - URGENT_UNASSIGNED_DELAY * MINUTE)
            \div (URGENT_UNASSIGNED_INTERVAL * MINUTE) + 1

\* the seconds of the run of a task created at instant c, up to instant t
\* of a later working period, without the time between the pause of the
\* day of c and the resume of the day of t
UnpausedSeconds(c, t) ==
    ((c - SecOfDay(c) + PAUSE_AT) - c) + (t - (t - SecOfDay(t) + RESUME_AT))

Distance(a, b) == IF a >= b THEN a - b ELSE b - a

\* the unassigned high-priority tasks created in working time that have
\* been through a pause and a resume
Resumed ==
    {k \in 1..Len(sheet) :
        /\ Eligible(sheet[k])
        /\ InWorkingTime(sheet[k].created)
        /\ InWorkingTime(now)
        /\ now - SecOfDay(now) > sheet[k].created}

\* C9 as stated: after the pause and the resume the number of alerts of
\* such a task is within 1 of the number of an uninterrupted run of the same
\* length without the paused time, and the count of its entry is the number
\* of alerts sent.  (Evaluated when every due timer and cron job has run.)
C9_CountPreserved ==
    \A k \in Resumed :
        (NothingDue(now + 1) /\ in_flight = {} /\ CronsDue(now) \subseteq cron_done)
        => /\ Distance(AlertCount(sheet[k].id),
                       uninterrupted_count(UnpausedSeconds(sheet[k].created, now))) <= 1
           /\ sheet[k].id \in DOMAIN urgent_watchlist
           /\ urgent_watchlist[sheet[k].id].notified_count = AlertCount(sheet[k].id)

(***************************************************************************)
(* Properties of the startup recovery                                      *)
(***************************************************************************)
\* C11 as stated: when the startup recovery completes, every task that is
\* Unassigned and High in the sheet with a creation timestamp has an
\* escalation entry and a pending check timer, whatever the day and the time
\* of the start.
C11_RecoveryCoverage ==
    [][(pc = "boot" /\ pc' = "run")
       => \A k \in 1..Len(sheet) :
             Recoverable(sheet[k])
             => /\ sheet[k].id \in DOMAIN urgent_watchlist'
                /\ JobDuesOf(urgent_jobs', sheet[k].id) # {}]_vars

(***************************************************************************)
(* Properties of the sheet fields                                          *)
(***************************************************************************)
\* C12: no step changes the priority of a row that is in the sheet: every
\* reply (Assign, Complete, MarkOperational), /oper, firing and restart
\* leaves it as finalize stored it, also when the reply carries a priority
\* hashtag.
C12_PriorityKept ==
    [][\A i \in 1..Len(sheet) :
          /\ Len(sheet') >= Len(sheet)
          /\ sheet'[i].priority = sheet[i].priority]_vars

\* a task filed with low priority was assigned by the reply "@bob #high"
C12_AssignedWithHashtag ==
    \E i \in 1..Len(sheet) :
        /\ sheet[i].id \in DOMAIN arrivals.filed
        /\ extract_priority(Strip(arrivals.filed[sheet[i].id][1])) = PRIO_LOW
        /\ sheet[i].priority = PRIO_LOW
        /\ sheet[i].status = STATUS_IN_PROGRESS
        /\ sheet[i].executor = <<"@", "b", "o", "b">>

\* C13 as stated: the assignment time of a row is written once: no step
\* changes an assignment time that is set.
C13_AssignedAtOnce ==
    [][\A i \in 1..Len(sheet) :
          sheet[i].assigned # NoTime => sheet'[i].assigned = sheet[i].assigned]_vars

(***************************************************************************)
(* Properties of the stale scan                                            *)
(***************************************************************************)
\* the report a scan makes in this step, if it makes one
ScanReports == Len(stale_reports') = Len(stale_reports) + 1

NewReport == stale_reports'[Len(stale_reports')]

ReportedItems(report) ==
    {[id |-> report.tasks[n].id, overdue |-> report.tasks[n].overdue] :
        n \in 1..Len(report.tasks)}

\* the tasks of the sheet that are over the budget of their priority at t
OverBudget(sh, t) ==
    {[id |-> sh[i].id,
      overdue |-> (t - sh[i].assigned) - max_hours(sh[i].priority)] :
        i \in {k \in 1..Len(sh) :
                  /\ sh[k].status = STATUS_IN_PROGRESS
                  /\ sh[k].assigned # NoTime
                  /\ t - sh[k].assigned > max_hours(sh[k].priority)}}

\* C14 as stated: every scan on a workday outside quiet hours reports
\* exactly the tasks of the sheet that are InProgress with an assignment
\* time more than the budget of their priority ago, each with the overage
\* elapsed - budget.
C14_ScanContent ==
    [][ScanReports => ReportedItems(NewReport) = OverBudget(sheet, now)]_vars

\* C15 as stated: a scan never reports a task whose status in the sheet is
\* Done when the scan starts.
C15_ScanSeesCompletion ==
    [][ScanReports
       => \A item \in ReportedItems(NewReport) :
             RowOf(item.id).status # STATUS_DONE]_vars

(***************************************************************************)
(* Properties of finalize                                                  *)
(***************************************************************************)
\* the keys whose pending entry this step removes
Finalized == DOMAIN pending_tasks \ DOMAIN pending_tasks'

\* a finalize whose publish fails: an id is taken and not announced
PublishFails ==
    /\ restarts' = restarts
    /\ task_counter' = task_counter + 1
    /\ task_counter' \notin published'

\* C16: when the publish of a finalize fails, no row is appended, no
\* escalation entry or timer is registered, the pending entry and its timer
\* are gone, the process goes on, and every aggregation that is still open
\* keeps its timer.
C16_PublishFailureLosesTask ==
    [][PublishFails
       => /\ sheet' = sheet
          /\ urgent_watchlist' = urgent_watchlist
          /\ urgent_jobs' = urgent_jobs
          /\ Cardinality(Finalized) = 1
          /\ \A key \in Finalized : \A j \in task_timers' : j.key # key
          /\ \A key \in DOMAIN pending_tasks' : \E j \in task_timers' : j.key = key
          /\ pc' = "run"]_vars

\* the publish of task 1 failed, and the next task of the same user was
\* announced and filed
C16_LostThenFiled ==
    /\ restarts = 0
    /\ task_counter = 2
    /\ published = {2}
    /\ Len(sheet) = 1
    /\ sheet[1].id = 2

\* C17 as stated: the ids of the rows strictly increase in the order of the
\* rows (the order of the finalizes), so no two rows carry the same id,
\* whatever fails and however often the process is restarted.
C17_IdsUniqueAndMonotonic ==
    \A i, j \in 1..Len(sheet) : i < j => sheet[i].id < sheet[j].id

\* C18: the finalize of a pending entry runs DEBOUNCE_SECONDS after the
\* message that opened it, whatever was appended; a step takes at most one
\* id, and it makes at most one announcement and one row, only when it
\* removes one pending entry.
C18_DebounceNotReset ==
    [][/\ \A key \in Finalized :
             now = pending_tasks[key].start_time + DEBOUNCE_SECONDS
       /\ task_counter' - task_counter = Cardinality(Finalized)
       /\ Cardinality(published' \ published) <= Cardinality(Finalized)
       /\ Len(sheet') - Len(sheet) <= Cardinality(Finalized)
       /\ Cardinality(Finalized) <= 1]_vars

\* a task made of three messages that was filed 20 s after a window opened
\* at 12:00:10
C18_ThreeMessagesOneTask ==
    \E i \in 1..Len(sheet) :
        /\ sheet[i].id \in DOMAIN arrivals.filed
        /\ Len(arrivals.filed[sheet[i].id]) = 3
        /\ sheet[i].created = 12 * HOUR + AggStep + DEBOUNCE_SECONDS
        /\ sheet[i].id \in published

(***************************************************************************)
(* Properties of the resume and of a failing firing                        *)
(***************************************************************************)
\* minutes from e minutes after creation to the next point of the cadence
\* delay, delay + interval, delay + 2 * interval, ...
to_next_cadence_point(e) ==
    IF e < URGENT_UNASSIGNED_DELAY THEN URGENT_UNASSIGNED_DELAY - e
    ELSE URGENT_UNASSIGNED_INTERVAL
            - ((e - URGENT_UNASSIGNED_DELAY) % URGENT_UNASSIGNED_INTERVAL)

ResumeRuns ==
    /\ "resume_timers" \notin cron_done
    /\ "resume_timers" \in cron_done'

\* C19 as stated: the resume schedules the next firing of every paused
\* entry after the time that remained, at the pause, until the next point
\* of the cadence of the task counted from its creation.
C19_ResumeOnCadence ==
    [][ResumeRuns
       => \A task_id \in DOMAIN paused_timers :
             JobDuesOf(urgent_jobs', task_id) =
                {now + to_next_cadence_point(
                          paused_timers[task_id].elapsed_minutes) * MINUTE}]_vars

\* C20 as stated: a step in which a firing for a task ends or fails while
\* the task is still Unassigned and High leaves its entry registered, with
\* a check still to come.
C20_FailureKeepsEntry ==
    [][\A task_id \in DOMAIN urgent_watchlist :
          (task_id \in TaskIds /\ Eligible(RowOf(task_id))')
          => /\ task_id \in DOMAIN urgent_watchlist'
             /\ HasTimer(task_id)' \/ Firing(task_id)']_vars

(***************************************************************************)
(* Properties of the reply handler                                         *)
(***************************************************************************)
\* the rows other than row k are left as they are
OtherRowsKept(k) ==
    /\ Len(sheet') = Len(sheet)
    /\ \A i \in 1..Len(sheet) : i # k => sheet'[i] = sheet[i]

\* C21: a reply of user u with a completion keyword (and no @handle) to a
\* task that is not Done sets the status to Done, the completion time to
\* now and the closer to the resolved name of u; it leaves the executor, the
\* assignment time, the priority, the topic and the id as they are, and
\* removes the active escalation entry and the timer of the task.
C21_CompleteEffect ==
    [][\A u \in Users, text \in TriggerTexts, task_id \in TaskIds :
          (/\ handle_task_reply(u, text, task_id)
           /\ ReplyAction(Strip(text)) = "complete"
           /\ RowOf(task_id).status # STATUS_DONE)
          => LET k == FindRow(sheet, task_id)
             IN /\ sheet'[k].status = STATUS_DONE
                /\ sheet'[k].completed = now
                /\ sheet'[k].closed_by = MappingGet(HandleOf(u))
                /\ sheet'[k].executor = sheet[k].executor
                /\ sheet'[k].assigned = sheet[k].assigned
                /\ sheet'[k].priority = sheet[k].priority
                /\ sheet'[k].topic = sheet[k].topic
                /\ sheet'[k].id = sheet[k].id
                /\ OtherRowsKept(k)
                /\ task_id \notin DOMAIN urgent_watchlist'
                /\ ~HasTimer(task_id)']_vars

\* a high-priority task under escalation was completed by bob, whose handle
\* is not in the user directory, without ever being assigned
C21_ClosedUnderEscalation ==
    /\ Len(sheet) = 1
    /\ sheet[1].priority = PRIO_HIGH
    /\ sheet[1].status = STATUS_DONE
    /\ sheet[1].executor = <<>>
    /\ sheet[1].closed_by = <<"@", "b", "o", "b">>
    /\ 1 \in DOMAIN alerts
    /\ urgent_watchlist = EmptyMap
    /\ urgent_jobs = {}

\* C22: a reply of user u with an operational tag (and no @handle or
\* completion keyword) to a task that is not Done sets the status to
\* Operational; if the task was Unassigned the executor becomes the resolved
\* name of u and the assignment time becomes now; an executor or an
\* assignment time that was set is left as it is.
C22_MarkOperationalEffect ==
    [][\A u \in Users, text \in TriggerTexts, task_id \in TaskIds :
          (/\ handle_task_reply(u, text, task_id)
           /\ ReplyAction(Strip(text)) = "operational"
           /\ RowOf(task_id).status # STATUS_DONE)
          => LET k == FindRow(sheet, task_id)
             IN /\ sheet'[k].status = STATUS_OPERATIONAL
                /\ sheet[k].status = STATUS_UNASSIGNED
                   => /\ sheet'[k].executor = MappingGet(HandleOf(u))
                      /\ sheet'[k].assigned = now
                /\ sheet[k].executor # <<>>
                   => sheet'[k].executor = sheet[k].executor
                /\ sheet[k].assigned # NoTime
                   => sheet'[k].assigned = sheet[k].assigned
                /\ OtherRowsKept(k)]_vars

\* two replies were processed, the second an operational tag one minute or
\* more after the task got its executor and its assignment time
C22_OperationalAfterAssign ==
    /\ Len(sheet) = 1
    /\ sheet[1].status = STATUS_OPERATIONAL
    /\ sheet[1].executor = <<"@", "b", "o", "b">>
    /\ sheet[1].assigned # NoTime
    /\ sheet[1].assigned < now
    /\ deleted_msgs = {1, 2}
    /\ next_message_id = 3

\* C23 as stated: the reply message is deleted if and only if its
\* transition was written to the sheet: a reply with an @handle or a
\* keyword to a task that is not Done is deleted, and no other reply is.
C23_DeletedIffWritten ==
    [][\A u \in Users, text \in DeskReplies \cup ReplyTexts,
          task_id \in TaskIds, fail \in ReplyFaults :
          task_reply(u, text, task_id, fail)
          => ((next_message_id \in deleted_msgs')
                 <=> (/\ ReplyAction(Strip(text)) # "none"
                      /\ ~reply_refused(RowOf(task_id).status)))]_vars

\* the severity of a priority: High before Medium before Low
Severity(priority) ==
    IF priority = PRIO_HIGH THEN 0 ELSE IF priority = PRIO_MEDIUM THEN 1 ELSE 2

\* C24 as stated: the tasks of one stale report are listed by severity and
\* overage: a higher priority comes first, and within one priority the larger
\* overage comes first, whatever the order of the rows of the sheet.
C24_ReportSorted ==
    [][ScanReports
       => \A i, j \in 1..Len(NewReport.tasks) :
             i < j
             => LET a == NewReport.tasks[i]
                    b == NewReport.tasks[j]
                IN \/ Severity(a.priority) < Severity(b.priority)
                   \/ /\ a.priority = b.priority
                      /\ a.overdue >= b.overdue]_vars

\* C25 as stated: after the validation, the budget of each priority is the
\* configured value when that value is at or above the floor of the
\* priority, and the floor itself (High 0.1 h, Medium 1 h, Low 4 h) when the
\* configured value is below the floor.
C25_ClampedToFloor ==
    stale_limits.validated
    => \A p \in {"high", "medium", "low"} :
          stale_limits.limit[p] =
             IF stale_limits.configured[p] >= MIN_LIMITS[p]
             THEN stale_limits.configured[p]
             ELSE MIN_LIMITS[p]

\* C26 as stated: every snapshot the cached read returns to /stats was read
\* from the sheet at most CACHE_TTL seconds before the call, also when reads
\* of the sheet have failed.
C26_SnapshotWithinTTL ==
    [][\A u \in Users :
          (/\ cmd_stats(u) \/ cmd_stats_read_fails(u)
           /\ sheet_cache'.filled)
          => now - sheet_cache'.timestamp <= CACHE_TTL]_vars

(***************************************************************************)
(* Properties of the summary jobs                                          *)
(***************************************************************************)
SummaryJobs ==
    {"morning_digest", "weekly_digest", "overdue_check",
     "non_urgent_unassigned_report"}

\* a run of the job whose read of the sheet fails
FailedRun(job) ==
    CASE job = "morning_digest" -> morning_digest("read")
      [] job = "weekly_digest" -> weekly_digest("read")
      [] job = "overdue_check" -> check_overdue_unassigned("read")
      [] OTHER -> report_unassigned_non_urgent("read")

\* C27 as stated: when the read of the sheet fails, each summary job sends
\* an error notice to the chat instead of its summary, returns, and changes
\* no task row and no entry of the escalation registries.
C27_ErrorNoticeOnReadFailure ==
    [][\A job \in SummaryJobs :
          FailedRun(job)
          => /\ chat_posts' = Append(chat_posts, Post(job, "error", now, {}))
             /\ UNCHANGED <<sheet, urgent_watchlist, paused_timers,
                            urgent_jobs>>]_vars

(***************************************************************************)
(* Properties of the alert numbers                                         *)
(***************************************************************************)
\* the tasks for which this step sends one more alert after an earlier one
AlertedAgain ==
    {task_id \in DOMAIN alerts \cap DOMAIN alerts' :
        alerts'[task_id].count = alerts[task_id].count + 1}

\* C28 as stated: the alerts of one task carry numbers that go up by exactly
\* one from each alert to the next, the alert that follows the catch-up alert
\* of a recovery included, however many other tasks were recovered.
C28_NumbersStepByOne ==
    [][\A task_id \in AlertedAgain :
          alerts'[task_id].last_n = alerts[task_id].last_n + 1]_vars

\* C29 as stated: the resume drops no entry that was added to the active
\* registry after the last pause; after the resume the active registry holds
\* every such entry and every reinstated paused entry.
C29_ResumeKeepsLaterEntries ==
    [][ResumeRuns
       => /\ DOMAIN urgent_watchlist \subseteq DOMAIN urgent_watchlist'
          /\ DOMAIN paused_timers \subseteq DOMAIN urgent_watchlist']_vars

\* the pending check timers and the firings in progress of a task
TimersOf(task_id) == {j \in urgent_jobs : j.task_id = task_id}

FiringsOf(task_id) == {f \in in_flight : f.task_id = task_id}

\* C30 as stated: every task of the active registry has exactly one pending
\* check timer or one firing in progress, and no task has two pending timers.
C30_OneTimerPerEntry ==
    /\ \A task_id \in DOMAIN urgent_watchlist :
          Cardinality(TimersOf(task_id)) + Cardinality(FiringsOf(task_id)) = 1
    /\ \A task_id \in TaskIds : Cardinality(TimersOf(task_id)) <= 1

(***************************************************************************)
(* Properties of the two registries                                        *)
(***************************************************************************)
PauseRuns ==
    /\ "pause_timers" \notin cron_done
    /\ "pause_timers" \in cron_done'

\* C31: no task id is in the active registry and in the paused set at once;
\* a pause that finds active entries empties the active registry, leaves no
\* escalation timer pending and makes the paused set exactly the entries
\* that were active, with creation time, topic and count as they were; a
\* resume that finds paused entries empties the paused set.
C31_RegistriesDisjoint ==
    /\ [](DOMAIN urgent_watchlist \cap DOMAIN paused_timers = {})
    /\ [][(PauseRuns /\ DOMAIN urgent_watchlist # {})
          => /\ urgent_watchlist' = EmptyMap
             /\ urgent_jobs' = {}
             /\ DOMAIN paused_timers' = DOMAIN urgent_watchlist
             /\ \A task_id \in DOMAIN urgent_watchlist :
                   /\ paused_timers'[task_id].created_at
                         = urgent_watchlist[task_id].created_at
                   /\ paused_timers'[task_id].topic
                         = urgent_watchlist[task_id].topic
                   /\ paused_timers'[task_id].notified_count
                         = urgent_watchlist[task_id].notified_count]_vars
    /\ [][(ResumeRuns /\ DOMAIN paused_timers # {})
          => paused_timers' = EmptyMap]_vars

\* a task that has been alerted is in the paused set while a task filed
\* after the pause is in the active registry
C31_PausedBesideActive ==
    /\ \E task_id \in DOMAIN paused_timers :
          paused_timers[task_id].notified_count > 0
    /\ DOMAIN urgent_watchlist # {}

(***************************************************************************)
(* Properties of abandoned replies                                         *)
(***************************************************************************)
\* the reply is abandoned: its notice or one of its writes fails
Abandoned(u, text, task_id) ==
    \/ task_reply(u, text, task_id, "notify")
    \/ task_reply_write_fails(u, text, task_id)

\* C32 as stated: when the handler of a reply is abandoned because a write
\* to the sheet or a chat call fails, the row of the task and the escalation
\* registry are exactly as before the reply, and no state has a half-applied
\* transition such as an executor on an Unassigned task.
C32_AbandonedChangesNothing ==
    /\ [][\A u \in Users, text \in TriggerTexts, task_id \in TaskIds :
             Abandoned(u, text, task_id)
             => UNCHANGED <<sheet, urgent_watchlist, urgent_jobs>>]_vars
    /\ [](\A i \in DOMAIN sheet :
             sheet[i].status = STATUS_UNASSIGNED => sheet[i].executor = <<>>)

\* C33 as stated: when every operation succeeds, a task is Unassigned
\* exactly when its executor and its assignment time are both empty, and
\* every task In progress or Operational has an executor and an assignment
\* time.
C33_StatusMatchesAssignment ==
    \A i \in DOMAIN sheet :
       /\ sheet[i].status = STATUS_UNASSIGNED
             <=> (Strip(sheet[i].executor) = <<>> /\ sheet[i].assigned = NoTime)
       /\ sheet[i].status \in {STATUS_IN_PROGRESS, STATUS_OPERATIONAL}
             => (Strip(sheet[i].executor) # <<>> /\ sheet[i].assigned # NoTime)

\* C34 as stated: after any finalize, whatever step of it failed, the
\* announcement of task X is published exactly when a row with id X is in
\* the sheet.
C34_AnnouncedIffFiled ==
    published = {sheet[i].id : i \in DOMAIN sheet}

(***************************************************************************)
(* Properties of the registration of escalations                           *)
(***************************************************************************)
\* the rows filed under the id
RowsOf(task_id) == {i \in DOMAIN sheet : sheet[i].id = task_id}

\* C35: every entry of the active registry or of the paused set belongs to
\* a task that has a row with priority High; a finalize registers an entry
\* only for the row it has appended; a task filed with priority Medium or Low
\* has no entry, no timer and no alert.
C35_EscalationOnlyForFiledHigh ==
    /\ [](\A task_id \in DOMAIN urgent_watchlist \cup DOMAIN paused_timers :
             \E i \in RowsOf(task_id) : sheet[i].priority = PRIO_HIGH)
    /\ [](\A i \in DOMAIN sheet :
             sheet[i].priority # PRIO_HIGH
             => /\ ~HasEntry(sheet[i].id)
                /\ ~HasTimer(sheet[i].id)
                /\ AlertCount(sheet[i].id) = 0)
    /\ [][(Finalized # {} /\ restarts' = restarts)
          => \A task_id \in DOMAIN urgent_watchlist' \ DOMAIN urgent_watchlist :
                /\ Len(sheet') = Len(sheet) + 1
                /\ sheet'[Len(sheet')].id = task_id
                /\ sheet'[Len(sheet')].priority = PRIO_HIGH]_vars

(***************************************************************************)
(* Properties of interleaved authors                                       *)
(***************************************************************************)
TimersOfKey(timers, key) == {j \in timers : j.key = key}

\* the entry and the timers of every key but this one are as they were
OtherKeysKept(key) ==
    \A k \in Users \ {key} :
       /\ k \in DOMAIN pending_tasks' <=> k \in DOMAIN pending_tasks
       /\ k \in DOMAIN pending_tasks => pending_tasks'[k] = pending_tasks[k]
       /\ TimersOfKey(task_timers', k) = TimersOfKey(task_timers, k)

\* C36: a message is added only to the pending entry of its own author, a
\* debounce timer finalizes only the entry of its own key, the task it files
\* has the author, the topic and the fragments of that entry in the order
\* they arrived, and a message without the tag from an author who has no
\* pending entry is not taken.
C36_KeysIndependent ==
    /\ [][\A u \in Users, text \in AggTexts :
             handle_new_task(u, text)
             => /\ OtherKeysKept(u)
                /\ u \in DOMAIN pending_tasks'
                /\ LET ids == pending_tasks'[u].msg_ids
                   IN ids[Len(ids)] = next_message_id
                /\ u \notin DOMAIN pending_tasks => IsTagText(Strip(text))]_vars
    /\ [][\A job \in task_timers :
             (finalize_task_job(job, "none") /\ job.key \in DOMAIN pending_tasks)
             => /\ OtherKeysKept(job.key)
                /\ job.key \notin DOMAIN pending_tasks'
                /\ LET row == sheet'[Len(sheet')]
                       data == pending_tasks[job.key]
                   IN /\ Len(sheet') = Len(sheet) + 1
                      /\ row.author = MappingGet(HandleOf(job.key))
                      /\ row.topic = data.topic
                      /\ row.description = Strip(JoinNL(data.desc_parts))]_vars

\* the two authors have interleaved: ann's entry holds her first and third
\* message, bob's entry the second
C36_Interleaved ==
    /\ DOMAIN pending_tasks = {"ann", "bob"}
    /\ pending_tasks["ann"].msg_ids = <<1, 3>>
    /\ pending_tasks["bob"].msg_ids = <<2>>

(***************************************************************************)
(* Properties of replies with several triggers                             *)
(***************************************************************************)
HasHandle(text) ==
    \E i \in 1..(Len(text) - 1) : text[i] = "@" /\ WordChar(text[i + 1])

HasKeyword(text, triggers) ==
    \E trigger \in triggers : Contains(Lower(text), trigger)

\* C37: a reply to a task that is not Done acts once, as an Assign when its
\* text has an @-handle, otherwise as a Complete when it has a completion
\* keyword, otherwise as a MarkOperational when it has the operational tag;
\* a reply with a handle and a completion keyword leaves the task in
\* progress with no completion recorded.
C37_AssignThenCompleteThenOperational ==
    [][\A u \in Users, text \in PrecedenceTexts, task_id \in TaskIds :
          (/\ handle_task_reply(u, text, task_id)
           /\ sheet[FindRow(sheet, task_id)].status # STATUS_DONE)
          => LET i == FindRow(sheet, task_id)
                 before == sheet[i]
                 after == sheet'[i]
             IN /\ \A k \in 1..Len(sheet) : k # i => sheet'[k] = sheet[k]
                /\ IF HasHandle(text)
                   THEN /\ after.status = STATUS_IN_PROGRESS
                        /\ after.executor = MappingGet(username_match(text))
                        /\ after.completed = before.completed
                        /\ after.closed_by = before.closed_by
                   ELSE IF HasKeyword(text, completion_triggers)
                   THEN /\ after.status = STATUS_DONE
                        /\ after.completed = now
                        /\ after.executor = before.executor
                   ELSE IF HasKeyword(text, operational_triggers)
                   THEN /\ after.status = STATUS_OPERATIONAL
                        /\ after.completed = before.completed
                   ELSE after = before]_vars

\* a reply "@bob gotovo" has been taken: the first task is in progress with
\* @bob, not completed, and the reply is deleted
C37_AssignedDespiteKeyword ==
    /\ Len(sheet) >= 1
    /\ sheet[1].status = STATUS_IN_PROGRESS
    /\ sheet[1].executor = <<"@", "b", "o", "b">>
    /\ sheet[1].completed = NoTime
    /\ deleted_msgs # {}

(***************************************************************************)
(* Properties of the morning digest                                        *)
(***************************************************************************)
\* C38: every run of the 08:00 job whose read of the sheet succeeds posts
\* one digest, the standard text on a workday and the weekend text on a
\* Saturday or a Sunday.
C38_DigestEveryMorning ==
    [][(morning_digest("none") /\ restarts' = restarts)
          => /\ Len(chat_posts') = Len(chat_posts) + 1
             /\ LET post == chat_posts'[Len(chat_posts')]
                IN /\ post.job = "morning_digest"
                   /\ post.at = now
                   /\ post.kind = IF is_weekend(now) THEN "weekend"
                                  ELSE "summary"]_vars

\* the same on the workdays only
C38_DigestOnWorkdays ==
    [][(morning_digest("none") /\ restarts' = restarts /\ is_weekday(now))
          => /\ Len(chat_posts') = Len(chat_posts) + 1
             /\ chat_posts'[Len(chat_posts')].kind = "summary"]_vars

\* no weekend digest is ever posted
C38_NoWeekendDigest ==
    \A i \in 1..Len(chat_posts) : chat_posts[i].kind # "weekend"

\* the 08:00 job has run on a Saturday or a Sunday
C38_WeekendMorningRun ==
    /\ is_weekend(now)
    /\ SecOfDay(now) = 8 * HOUR
    /\ "morning_digest" \in cron_done

(***************************************************************************)
(* Properties of the retry wrapper                                         *)
(***************************************************************************)
Finished == retry.state \in {"returned", "raised"}

\* the first call among the first max_attempts whose outcome is not a
\* transient error, 0 when there is none
FirstDecisive(func) ==
    LET decisive == {n \in 1..max_attempts : func[n] # "transient"}
    IN IF decisive = {} THEN 0
       ELSE CHOOSE n \in decisive : \A m \in decisive : n <= m

\* C39: the wrapper calls the wrapped operation at most max_attempts times;
\* it returns the first successful result and makes no call after it, raises
\* the last error after max_attempts transient failures in a row, lets an
\* error of another type through at its first occurrence with no further
\* call, and always comes to an end.
C39_BoundedRetry ==
    /\ [](retry.calls <= max_attempts)
    /\ [](Finished =>
            LET k == FirstDecisive(retry.func)
            IN IF k = 0
               THEN /\ retry.state = "raised"
                    /\ retry.calls = max_attempts
                    /\ retry.out = max_attempts
               ELSE /\ retry.calls = k
                    /\ retry.out = k
                    /\ retry.state = IF retry.func[k] = "ok" THEN "returned"
                                     ELSE "raised")
    /\ [][Finished => retry' = retry]_vars
    /\ <>Finished

\* three transient failures in a row: three calls were made and the error
\* of the third leaves the wrapper
C39_RaisedAfterThreeFailures ==
    /\ retry.state = "raised"
    /\ retry.calls = max_attempts
    /\ retry.out = max_attempts
    /\ \A n \in 1..max_attempts : retry.func[n] = "transient"

====
